---- MODULE Spec2Model ----
(***************************************************************************)
(* Sandbox orchestration of the side-by-side arena:                        *)
(*   fastchat/serve/sandbox/code_runner.py                                 *)
(*   fastchat/serve/gradio_block_arena_named.py                            *)
(*                                                                         *)
(* Text is modelled structurally.  A code fragment is a sequence of lines, *)
(* each line a record [k, a, n]: k the kind of syntax node the line holds, *)
(* a its dotted / slashed path or identifier, n its relative-import level  *)
(* (for "from" lines) or nesting depth (for "name" lines).  A chat message *)
(* is a sequence of segments: prose, or a fenced block [tag, body].        *)
(***************************************************************************)
EXTENDS Integers, Sequences, FiniteSets, TLC

\* ------------------------------------------------------------------ bounds
\* Number of user-interface events (clicks, selections, sends) in a behaviour.
MaxEvents == 3

\* Number of handler invocations (on_edit_code, on_click_code_message_run)
\* that may be in flight at the same time.
MaxInFlight == 2

\* Length of a dependency list handed to an install helper.
MaxDeps == 3

\* Number of lines of a code fragment handed to a parser or a classifier.
MaxLines == 2

\* Number of segments (prose, fenced blocks) of a message handed to the
\* markdown extractor.
MaxSegments == 3

\* Number of result artifacts of one execution in the interpreter.
MaxResults == 2
MaxStates == 3

\* ------------------------------------------------------------ enumerations
None == "<None>"

AUTO == "Auto"
PYTHON_CODE_INTERPRETER == "Python Code Interpreter"
JAVASCRIPT_CODE_INTERPRETER == "Javascript Code Interpreter"
HTML == "HTML"
REACT == "React"
VUE == "Vue"
GRADIO == "Gradio"
STREAMLIT == "Streamlit"
NICEGUI == "NiceGUI"
PYGAME == "PyGame"

SUPPORTED_SANDBOX_ENVIRONMENTS ==
    <<AUTO, PYTHON_CODE_INTERPRETER, JAVASCRIPT_CODE_INTERPRETER, HTML, REACT,
      VUE, GRADIO, STREAMLIT, NICEGUI, PYGAME>>

SandboxEnvironment ==
    {SUPPORTED_SANDBOX_ENVIRONMENTS[i] : i \in 1..Len(SUPPORTED_SANDBOX_ENVIRONMENTS)}

WEB_UI_SANDBOX_ENVIRONMENTS ==
    {HTML, REACT, VUE, GRADIO, STREAMLIT, NICEGUI, PYGAME}

VALID_GRADIO_CODE_LANGUAGES ==
    {"python", "c", "cpp", "markdown", "json", "html", "css", "javascript",
     "jinja2", "typescript", "yaml", "dockerfile", "shell", "r", "sql",
     "sql-msSQL", "sql-mySQL", "sql-mariaDB", "sql-sqlite", "sql-cassandra",
     "sql-plSQL", "sql-hive", "sql-pgSQL", "sql-gql", "sql-gpSQL",
     "sql-sparkSQL", "sql-esper"}

\* The per-environment instruction table; the texts are pairwise different.
Template(env) == "instruction for " \o env

DEFAULT_SANDBOX_INSTRUCTIONS == [env \in SandboxEnvironment |-> Template(env)]

\* dict.get(key, None)
DictGet(d, key) == IF key \in DOMAIN d THEN d[key] ELSE None

num_sides == 2
Sides == 0..(num_sides - 1)

\* ------------------------------------------------------------------- text
Line(k, a, n) == [k |-> k, a |-> a, n |-> n]

Blank == Line("blank", <<>>, 0)
Stmt == Line("stmt", <<>>, 0)
SyntaxErr == Line("syntaxerror", <<>>, 0)
Import(path) == Line("import", path, 0)
FromImport(level, path) == Line("from", path, level)
Name(id, depth) == Line("name", <<id>>, depth)
JsImport(path) == Line("jsimport", path, 0)
Require(path) == Line("require", path, 0)
Jsx == Line("jsx", <<>>, 0)
Doctype == Line("doctype", <<>>, 0)
Words == Line("words", <<>>, 0)

\* The value None where a code text is expected.
NoCode == <<Line("None", <<>>, 0)>>

\* str.strip() on a fragment: leading and trailing blank lines go.
RECURSIVE LStrip(_)
LStrip(code) ==
    IF code # <<>> /\ Head(code).k = "blank" THEN LStrip(Tail(code)) ELSE code

RECURSIVE RStrip(_)
RStrip(code) ==
    IF code # <<>> /\ code[Len(code)].k = "blank"
    THEN RStrip(SubSeq(code, 1, Len(code) - 1))
    ELSE code

Strip(code) == RStrip(LStrip(code))

\* str.lower() on the language tags of the vocabulary.
Lower(tag) ==
    CASE tag = "Python" -> "python"
      [] tag = "TSX" -> "tsx"
      [] OTHER -> tag

\* A deterministic list of the elements of a set: list(set).
RECURSIVE SetToList(_)
SetToList(S) ==
    IF S = {} THEN <<>>
    ELSE LET x == CHOOSE y \in S : TRUE IN <<x>> \o SetToList(S \ {x})

ListToSet(l) == {l[i] : i \in 1..Len(l)}

\* ---------------------------------------------------------- source parser
\* sys.stdlib_module_names, as far as the vocabulary goes.
std_libs == {"os", "sys", "math", "json", "importlib"}

preinstalled == {"pygame", "gradio", "streamlit", "nicegui"}

ParsesAsPython(code) == \A i \in 1..Len(code) : code[i].k # "syntaxerror"

\* An extraction that takes the module of relative imports too and keeps the
\* pre-installed frameworks (a faulty variant C29 must tell apart from
\* extract_python_imports).
extract_python_importsUnfiltered(code) ==
    IF ~ParsesAsPython(code) THEN <<>>
    ELSE LET packages ==
                 {code[i].a[1] : i \in {j \in 1..Len(code) :
                     /\ code[j].a # <<>>
                     /\ code[j].k \in {"import", "from"}}}
         IN SetToList(packages \ std_libs)

extract_python_imports(code) ==
    IF ~ParsesAsPython(code) THEN <<>>
    ELSE LET packages ==
                 {code[i].a[1] : i \in {j \in 1..Len(code) :
                     /\ code[j].a # <<>>
                     /\ \/ code[j].k = "import"
                        \/ code[j].k = "from" /\ code[j].n = 0}}
         IN SetToList((packages \ std_libs) \ preinstalled)

\* The tree-sitter path: the specifier up to the first '/', relative
\* specifiers (leading '.') left out.
extract_js_imports(code) ==
    LET packages ==
            {code[i].a[1] : i \in {j \in 1..Len(code) :
                /\ code[j].k \in {"jsimport", "require"}
                /\ code[j].a # <<>>
                /\ code[j].a[1] # "."}}
    IN SetToList(packages)

\* ----------------------------------------------------- environment classifier
\* ast.walk is breadth-first: nodes of smaller depth first, source order within
\* one depth.
\* A walk in source order, whatever the depth (a faulty variant C27 must tell
\* apart from WalkBefore).
WalkBeforeSourceOrder(code, i, j) == i < j

WalkBefore(code, i, j) ==
    \/ code[i].n < code[j].n
    \/ code[i].n = code[j].n /\ i < j

determine_python_environment(code, imports) ==
    LET hits == {i \in 1..Len(code) :
                    code[i].k = "name" /\ code[i].a[1] \in {"gr", "st"}}
        first == CHOOSE i \in hits : \A j \in hits \ {i} : WalkBefore(code, i, j)
    IN IF ParsesAsPython(code) /\ hits # {}
       THEN (IF code[first].a[1] = "gr" THEN GRADIO ELSE STREAMLIT)
       ELSE IF "pygame" \in ListToSet(imports) THEN PYGAME
       ELSE IF "gradio" \in ListToSet(imports) THEN GRADIO
       ELSE IF "streamlit" \in ListToSet(imports) THEN STREAMLIT
       ELSE IF "nicegui" \in ListToSet(imports) THEN NICEGUI
       ELSE PYTHON_CODE_INTERPRETER

\* The nodes the cursor loop visits: it starts at the root and only ever moves
\* to a next sibling (goto_first_child is never called), so it sees the root
\* node, of type program, and stops.
CursorVisited(code) == <<"program">>

react_packages == {"react", "@react", "next", "@next", "vite"}
vue_packages == {"vue", "@vue", "nuxt", "@nuxt"}

determine_js_environment(code, imports) ==
    LET visited == CursorVisited(code)
        hits == {i \in 1..Len(visited) :
                    visited[i] \in {"jsx_element", "jsx_self_closing_element",
                                    "template_element"}}
        first == CHOOSE i \in hits : \A j \in hits : i <= j
    IN IF hits # {}
       THEN (IF visited[first] = "template_element" THEN VUE ELSE REACT)
       ELSE IF ListToSet(imports) \cap react_packages # {} THEN REACT
       ELSE IF ListToSet(imports) \cap vue_packages # {} THEN VUE
       ELSE JAVASCRIPT_CODE_INTERPRETER

\* ------------------------------------------------- markdown code extractor
Prose == [t |-> "prose", tag |-> "", body |-> <<>>]
Say(body) == [t |-> "prose", tag |-> "", body |-> body]
Block(tag, body) == [t |-> "block", tag |-> tag, body |-> body]

\* len() of a block body in characters: every line ends in a newline.
LineLen(l) ==
    CASE l.k = "blank" -> 1
      [] l.k = "stmt" -> 12
      [] OTHER -> 16

RECURSIVE CodeLen(_)
CodeLen(code) ==
    IF code = <<>> THEN 0 ELSE LineLen(Head(code)) + CodeLen(Tail(code))

\* Info strings of the vocabulary that the pattern's (?P<code_lang>\w+)?\n
\* does not accept after the three backticks: anything but word characters
\* before the end of the line.
NonWordTags == {"c++", "python "}

\* The positions of the fenced blocks of a message, left to right.
BlockPositions(message) ==
    SelectSeq([i \in 1..Len(message) |-> i], LAMBDA i : message[i].t = "block")

\* The text between two segments of a message.
RECURSIVE Between(_, _, _)
Between(message, i, j) ==
    IF i + 1 >= j THEN <<>>
    ELSE message[i + 1].body \o Between(message, i + 1, j)

\* re.finditer over the fences of the message.  Fence f is the opening (f odd)
\* or the closing (f even) fence of block (f + 1) \div 2.  A fence starts a
\* match when a newline follows its optional word tag: an opening fence with
\* a word tag or none, and every closing fence.  The match then runs lazily
\* to the next fence of either kind, and the scan resumes after that one.
RECURSIVE Scan(_, _)
Scan(message, f) ==
    LET at == BlockPositions(message)
        b == (f + 1) \div 2
    IN IF f >= 2 * Len(at) THEN <<>>
       ELSE IF f % 2 = 1
       THEN (IF message[at[b]].tag \in NonWordTags
             THEN Scan(message, f + 1)
             ELSE <<message[at[b]]>> \o Scan(message, f + 2))
       ELSE <<Block("", Between(message, at[b], at[b + 1]))>>
                \o Scan(message, f + 2)

\* re.finditer(code_block_regex, message, re.DOTALL), left to right.
\* A search that takes the whole text for a block when it finds no fence (a
\* faulty variant C25 must tell apart from Matches).
MatchesOrWholeText(message) ==
    IF Scan(message, 1) # <<>> THEN Scan(message, 1)
    ELSE <<Block("", Between(message, 0, Len(message) + 1))>>

Matches(message) ==
    Scan(message, 1)

\* max(matches, key=...): the first maximal element.
RECURSIVE MaxBy(_, _)
MaxBy(matches, best) ==
    IF matches = <<>> THEN best
    ELSE MaxBy(Tail(matches),
               IF CodeLen(Head(matches).body) > CodeLen(best.body)
               THEN Head(matches) ELSE best)

HasMarkup(code) == \E i \in 1..Len(code) : code[i].k = "doctype"

\* The return value None of the extraction.
NoResult ==
    [is_none |-> TRUE, code |-> <<>>, code_lang |-> "", deps |-> <<<<>>, <<>>>>,
     env |-> None]

\* "if enable_auto_env and sandbox_env_name is None: return None"
\* An extraction that hands out unclassified code in automatic mode too (a
\* faulty variant C23 must tell apart from WithheldInAuto).
WithheldInAutoNever(enable_auto_env, sandbox_env_name) == FALSE

WithheldInAuto(enable_auto_env, sandbox_env_name) ==
    enable_auto_env /\ sandbox_env_name = None

extract_code_from_markdown(message, enable_auto_env) ==
    LET matches == Matches(message)
        longest_match == MaxBy(Tail(matches), Head(matches))
        code == Strip(longest_match.body)
        code_lang == Lower(longest_match.tag)
        python_packages ==
            IF code_lang \in {"py", "python"}
            THEN extract_python_imports(code) ELSE <<>>
        npm_packages ==
            IF code_lang \in {"js", "javascript", "ts", "typescript", "tsx", "jsx"}
            THEN extract_js_imports(code) ELSE <<>>
        sandbox_env_name ==
            IF code_lang \in {"py", "python"}
            THEN determine_python_environment(code, python_packages)
            ELSE IF code_lang \in {"js", "javascript", "ts", "typescript", "tsx", "jsx"}
            THEN determine_js_environment(code, npm_packages)
            ELSE IF code_lang \in {"html", "xhtml", "xml"} \/ HasMarkup(code)
            THEN HTML
            ELSE None
    IN IF matches = <<>> THEN NoResult
       ELSE IF WithheldInAuto(enable_auto_env, sandbox_env_name) THEN NoResult
       ELSE [is_none |-> FALSE, code |-> code, code_lang |-> code_lang,
             deps |-> <<python_packages, npm_packages>>,
             env |-> sandbox_env_name]

\* -------------------------------------------------------- remote handlers
Op(op, arg, pkgs) == [op |-> op, arg |-> arg, pkgs |-> pkgs]

\* An install helper that issues its command for an empty list too (a faulty
\* variant C22 must tell apart from install_pip_dependencies).
install_pip_dependenciesAlways(dependencies) ==
    <<Op("run", "uv pip install --system", dependencies)>>

install_pip_dependencies(dependencies) ==
    IF dependencies = <<>> THEN <<>>
    ELSE <<Op("run", "uv pip install --system", dependencies)>>

install_npm_dependencies(dependencies) ==
    IF dependencies = <<>> THEN <<>>
    ELSE <<Op("run", "npm install", dependencies)>>

InstallDeps(code_dependencies) ==
    install_pip_dependencies(code_dependencies[1])
        \o install_npm_dependencies(code_dependencies[2])

run_code_interpreter(code_language, code_dependencies) ==
    <<Op("create", "CodeSandbox", <<>>), Op("run", "pip install uv", <<>>)>>
        \o InstallDeps(code_dependencies)
        \o <<Op("run_code", code_language, <<>>)>>

\* ------------------------------------------------- interpreter output
\* A result artifact of an execution: one field per format, the empty string
\* where the format is not set, and str its generic text.  Text is a sequence
\* of pieces, concatenated in order; the three backticks of a fence are
\* written ''' in the pieces.
ResultFormats ==
    <<"png", "jpeg", "svg", "html", "markdown", "latex", "json", "javascript">>

b64encode(data) == "base64(" \o data \o ")"

\* The return value of the branch of render_result for one format.
Branch(format, value) ==
    CASE format = "png" -> <<"![png image](data:image/png;base64,", value, ")">>
      [] format = "jpeg" -> <<"![jpeg image](data:image/jpeg;base64,", value, ")">>
      [] format = "svg" ->
             <<"![svg image](data:image/svg+xml;base64,", b64encode(value), ")">>
      [] format = "html" -> <<value>>
      [] format = "markdown" -> <<"'''markdown\n", value, "\n'''">>
      [] format = "latex" -> <<"'''latex\n", value, "\n'''">>
      [] format = "json" -> <<"'''json\n", value, "\n'''">>
      [] format = "javascript" -> <<value>>

\* The formats of the if / elif chain that are set on the artifact.
Truthy(result) == {i \in 1..Len(ResultFormats) : result[ResultFormats[i]] # ""}

\* A rendering that lets the last format set on the artifact win (a faulty
\* variant C32 must tell apart from render_result).
render_resultLastWins(result) ==
    IF Truthy(result) = {} THEN <<result.str>>
    ELSE LET i == CHOOSE k \in Truthy(result) : \A j \in Truthy(result) : j <= k
         IN Branch(ResultFormats[i], result[ResultFormats[i]])

render_result(result) ==
    IF Truthy(result) = {} THEN <<result.str>>
    ELSE LET i == CHOOSE k \in Truthy(result) : \A j \in Truthy(result) : k <= j
         IN Branch(ResultFormats[i], result[ResultFormats[i]])

\* "\n".join(pieces), where each piece is itself a text.
RECURSIVE Join(_)
Join(pieces) ==
    IF pieces = <<>> THEN <<>>
    ELSE IF Len(pieces) = 1 THEN pieces[1]
    ELSE pieces[1] \o <<"\n">> \o Join(Tail(pieces))

\* bool(text): a text is falsy when all its pieces are empty.
Falsy(text) == \A i \in 1..Len(text) : text[i] = ""

\* The results list: the renderings of the artifacts that have no javascript.
RECURSIVE Rendered(_)
Rendered(results) ==
    IF results = <<>> THEN <<>>
    ELSE (IF Head(results).javascript # "" THEN <<>>
          ELSE <<render_result(Head(results))>>) \o Rendered(Tail(results))

\* The text run_code_interpreter returns for an execution.
Output(execution) ==
    LET stdout == Join([i \in 1..Len(execution.stdout) |-> <<execution.stdout[i]>>])
        stderr == Join([i \in 1..Len(execution.stderr) |-> <<execution.stderr[i]>>])
        results == Rendered(execution.results)
    IN (IF Falsy(stdout) THEN <<>>
        ELSE <<"### Stdout:\n'''\n">> \o stdout \o <<"\n'''\n\n">>)
       \o (IF Falsy(stderr) THEN <<>>
           ELSE <<"### Stderr:\n'''\n">> \o stderr \o <<"\n'''\n\n">>)
       \o (IF results = <<>> THEN <<>>
           ELSE <<"\n### Results:\n">> \o Join(results))

run_html_sandbox(code_dependencies) ==
    <<Op("create", "Sandbox", <<>>)>>
        \o InstallDeps(code_dependencies)
        \o <<Op("make_dir", "myhtml", <<>>),
             Op("write", "~/myhtml/main.html", <<>>),
             Op("start", "python -m http.server 3000", <<>>),
             Op("get_host", "3000", <<>>)>>

run_react_sandbox(code_dependencies) ==
    <<Op("create", "nextjs-developer", <<>>)>>
        \o InstallDeps(code_dependencies)
        \o <<Op("make_dir", "pages", <<>>),
             Op("write", "~/pages/index.tsx", <<>>),
             Op("get_host", "3000", <<>>)>>

run_vue_sandbox(code_dependencies) ==
    <<Op("create", "vue-developer", <<>>),
      Op("write", "~/app.vue", <<>>)>>
        \o InstallDeps(code_dependencies)
        \o <<Op("get_host", "3000", <<>>)>>

\* run_pygame_sandbox with the server started ahead of the build (a faulty
\* variant C12 must tell apart).
run_pygame_sandboxServesFirst(code_dependencies) ==
    <<Op("create", "Sandbox", <<>>),
      Op("make_dir", "mygame", <<>>),
      Op("write", "~/mygame/main.py", <<>>),
      Op("run", "pip install uv", <<>>),
      Op("run", "uv pip install --system pygame pygbag black", <<>>)>>
        \o InstallDeps(code_dependencies)
        \o <<Op("start", "python -m http.server 3000", <<>>),
             Op("run", "pygbag --build ~/mygame", <<>>),
             Op("get_host", "3000", <<>>)>>

run_pygame_sandbox(code_dependencies) ==
    <<Op("create", "Sandbox", <<>>),
      Op("make_dir", "mygame", <<>>),
      Op("write", "~/mygame/main.py", <<>>),
      Op("run", "pip install uv", <<>>),
      Op("run", "uv pip install --system pygame pygbag black", <<>>)>>
        \o InstallDeps(code_dependencies)
        \o <<Op("run", "pygbag --build ~/mygame", <<>>),
             Op("start", "python -m http.server 3000", <<>>),
             Op("get_host", "3000", <<>>)>>

run_nicegui_sandbox(code_dependencies) ==
    <<Op("create", "Sandbox", <<>>),
      Op("run", "pip install --upgrade nicegui", <<>>),
      Op("make_dir", "mynicegui", <<>>),
      Op("write", "~/mynicegui/main.py", <<>>)>>
        \o InstallDeps(code_dependencies)
        \o <<Op("start", "python ~/mynicegui/main.py", <<>>),
             Op("get_host", "8080", <<>>)>>

run_gradio_sandbox(code_dependencies) ==
    <<Op("create", "gradio-developer", <<>>),
      Op("write", "~/app.py", <<>>)>>
        \o InstallDeps(code_dependencies)
        \o <<Op("get_host", "7860", <<>>)>>

run_streamlit_sandbox(code_dependencies) ==
    <<Op("create", "Sandbox", <<>>),
      Op("run", "pip install --upgrade streamlit", <<>>),
      Op("make_dir", "mystreamlit", <<>>),
      Op("write", "~/mystreamlit/app.py", <<>>)>>
        \o InstallDeps(code_dependencies)
        \o <<Op("start", "streamlit run ~/mystreamlit/app.py", <<>>),
             Op("get_host", "8501", <<>>)>>

\* The host the service answers with for an exposed port of the machine.
get_host(port) == port \o "-sandbox.e2b.dev"

\* The path the handler appends to the exposed host.
\* A handler that returns the bare host for every environment (a faulty
\* variant C21 must tell apart from UrlSuffix).
UrlSuffixNone(handler) == ""

UrlSuffix(handler) ==
    CASE handler = HTML -> "/myhtml/main.html"
      [] handler = PYGAME -> "/mygame/build/web/"
      [] OTHER -> ""

\* ------------------------------------------------------------------ state
VARIABLES
    E2B_API_KEY,              \* whether the credential is set in the environment
    enable_sandbox_checkbox,  \* value of the "Enable Sandbox" checkbox
    sandbox_env_choice,       \* value of the environment dropdown
    env_choice_interactive,   \* whether the dropdown accepts input
    system_prompt_textbox,    \* value of the system prompt textbox
    sandbox_states,           \* side -> ChatbotSandboxState
    states,                   \* side -> conversation state (None before first send)
    chain,                    \* the .then() chain in progress, and its position
    call,                     \* side -> handler kind -> invocation in that slot
    last,                     \* side -> how its most recent invocation ended
    streak,                   \* consecutive MessageRun events on one message
    events,                   \* number of user-interface events so far
    cleared,                  \* side -> clear_history ran, no MessageRun since
    probe                     \* a function applied on its own: name, input, result

vars ==
    <<E2B_API_KEY, enable_sandbox_checkbox, sandbox_env_choice,
      env_choice_interactive, system_prompt_textbox, sandbox_states, states,
      chain, call, last, streak, events, cleared, probe>>

ui_vars ==
    <<enable_sandbox_checkbox, sandbox_env_choice, env_choice_interactive,
      system_prompt_textbox>>

Kinds == {"edit", "msg"}

create_chatbot_sandbox_state(btn_list_length) ==
    [enable_sandbox |-> FALSE,
     sandbox_environment |-> None,
     auto_selected_sandbox_environment |-> None,
     sandbox_instruction |-> None,
     code_to_execute |-> <<>>,
     code_language |-> None,
     code_dependencies |-> <<<<>>, <<>>>>,
     enabled_round |-> 0,
     btn_list_length |-> btn_list_length]

\* ------------------------------------------------------------- renderings
\* (sandbox_output, sandbox_ui, sandbox_code) as one handler yields them.
Rendering(status, ui_visible, url, text) ==
    [status |-> status, ui_visible |-> ui_visible, url |-> url, text |-> text]

AllNone == Rendering("none", FALSE, "", "")
AllSkip == Rendering("skip", FALSE, "", "")
Loading == Rendering("### Loading Sandbox", FALSE, "", "")
Running(url) == Rendering("### Running Sandbox", TRUE, url, "")
Printed(text) == Rendering("printed", FALSE, "", text)

\* What the user handed to an invocation: the text of the code editor
\* (on_edit_code) or the clicked chat message (on_click_code_message_run).
EditInput(sandbox_code) == [m |-> 0, has_button |-> FALSE, text |-> sandbox_code]
ClickInput(m, has_button) == [m |-> m, has_button |-> has_button, text |-> <<>>]

\* An invocation slot.  pc: "idle" (nothing in flight), "loaded" (the loading
\* rendering is out, the dispatcher not yet entered), "remote" (inside a
\* handler, issued remote calls made so far).
IdleCall ==
    [pc |-> "idle", arg |-> EditInput(<<>>), code |-> <<>>, lang |-> None,
     handler |-> None, ops |-> <<>>, issued |-> 0, emitted |-> <<>>]

\* How the most recent invocation on a side ended, and what it had yielded.
Ended(h, arg, outcome, handler, emitted) ==
    [by |-> h, arg |-> arg, outcome |-> outcome, handler |-> handler,
     emitted |-> emitted]

NeverRan == Ended("none", EditInput(<<>>), "never", None, <<>>)

InFlight == {sh \in Sides \X Kinds : call[sh[1]][sh[2]].pc # "idle"}

\* The language as the code component takes it.
GradioLanguage(code_language) ==
    LET l == IF code_language = "tsx" THEN "typescript" ELSE code_language
    IN IF l # None /\ l # "" /\ Lower(l) \in VALID_GRADIO_CODE_LANGUAGES
       THEN Lower(l) ELSE None

\* on_run_code up to its first yield: how it ends there, or "loading" when it
\* goes on.
\* on_run_code's guards without the credential check (a faulty variant C6
\* must tell apart from RunEntry).
RunEntryNoCredentialCheck(st) ==
    IF st.enable_sandbox = FALSE THEN "disabled"
    ELSE IF st.code_to_execute = NoCode \/ st.code_language = None
    THEN "nothing to run"
    ELSE "loading"

RunEntry(st) ==
    IF st.enable_sandbox = FALSE THEN "disabled"
    ELSE IF ~E2B_API_KEY THEN "no credential"
    ELSE IF st.code_to_execute = NoCode \/ st.code_language = None
    THEN "nothing to run"
    ELSE "loading"

\* What a handler that ends before any remote call has yielded.
EarlyYield(outcome) ==
    CASE outcome = "skip" -> <<AllSkip>>
      [] outcome = "no credential" -> <<>>
      [] OTHER -> <<AllNone>>

LoadedCall(arg, st) ==
    [IdleCall EXCEPT !.pc = "loaded",
                     !.arg = arg,
                     !.code = st.code_to_execute,
                     !.lang = GradioLanguage(st.code_language),
                     !.emitted = <<Loading>>]

\* The slot and the record of side s after handler h got as far as `outcome`.
Enter(s, h, arg, outcome, st) ==
    IF outcome = "loading"
    THEN /\ call' = [call EXCEPT ![s][h] = LoadedCall(arg, st)]
         /\ UNCHANGED last
    ELSE /\ last' = [last EXCEPT ![s] =
                        Ended(h, arg, outcome, None, EarlyYield(outcome))]
         /\ UNCHANGED call

Finish(s, h, outcome, emitted) ==
    /\ call' = [call EXCEPT ![s][h] = IdleCall]
    /\ last' = [last EXCEPT ![s] =
                   Ended(h, call[s][h].arg, outcome, call[s][h].handler, emitted)]

EffectiveEnvironment(st) ==
    IF st.sandbox_environment # AUTO
    THEN st.sandbox_environment
    ELSE st.auto_selected_sandbox_environment

\* The match statement of on_run_code: the handler of each tag.
\* Faulty variants of the match statement: one sends React code to the Vue
\* handler (C8 must tell it apart), one runs an unmatched tag in the Python
\* interpreter instead of raising (C10 must tell it apart).
HandlerOpsReactAsVue(sandbox_env, code_dependencies) ==
    CASE sandbox_env = HTML -> run_html_sandbox(code_dependencies)
      [] sandbox_env = REACT -> run_vue_sandbox(code_dependencies)
      [] sandbox_env = VUE -> run_vue_sandbox(code_dependencies)
      [] sandbox_env = PYGAME -> run_pygame_sandbox(code_dependencies)
      [] sandbox_env = GRADIO -> run_gradio_sandbox(code_dependencies)
      [] sandbox_env = STREAMLIT -> run_streamlit_sandbox(code_dependencies)
      [] sandbox_env = NICEGUI -> run_nicegui_sandbox(code_dependencies)
      [] sandbox_env = PYTHON_CODE_INTERPRETER ->
             run_code_interpreter("python", code_dependencies)
      [] sandbox_env = JAVASCRIPT_CODE_INTERPRETER ->
             run_code_interpreter("javascript", code_dependencies)
      [] OTHER -> <<>>

HandlerOpsDefaultInterpreter(sandbox_env, code_dependencies) ==
    CASE sandbox_env = HTML -> run_html_sandbox(code_dependencies)
      [] sandbox_env = REACT -> run_react_sandbox(code_dependencies)
      [] sandbox_env = VUE -> run_vue_sandbox(code_dependencies)
      [] sandbox_env = PYGAME -> run_pygame_sandbox(code_dependencies)
      [] sandbox_env = GRADIO -> run_gradio_sandbox(code_dependencies)
      [] sandbox_env = STREAMLIT -> run_streamlit_sandbox(code_dependencies)
      [] sandbox_env = NICEGUI -> run_nicegui_sandbox(code_dependencies)
      [] sandbox_env = JAVASCRIPT_CODE_INTERPRETER ->
             run_code_interpreter("javascript", code_dependencies)
      [] OTHER -> run_code_interpreter("python", code_dependencies)

HandlerOps(sandbox_env, code_dependencies) ==
    CASE sandbox_env = HTML -> run_html_sandbox(code_dependencies)
      [] sandbox_env = REACT -> run_react_sandbox(code_dependencies)
      [] sandbox_env = VUE -> run_vue_sandbox(code_dependencies)
      [] sandbox_env = PYGAME -> run_pygame_sandbox(code_dependencies)
      [] sandbox_env = GRADIO -> run_gradio_sandbox(code_dependencies)
      [] sandbox_env = STREAMLIT -> run_streamlit_sandbox(code_dependencies)
      [] sandbox_env = NICEGUI -> run_nicegui_sandbox(code_dependencies)
      [] sandbox_env = PYTHON_CODE_INTERPRETER ->
             run_code_interpreter("python", code_dependencies)
      [] sandbox_env = JAVASCRIPT_CODE_INTERPRETER ->
             run_code_interpreter("javascript", code_dependencies)
      [] OTHER -> <<>>

\* The port the handler asks the host of: the argument of its get_host call.
ExposedPort(handler) ==
    LET ops == HandlerOps(handler, <<<<>>, <<>>>>) IN ops[Len(ops)].arg

Dispatchable ==
    {HTML, REACT, VUE, PYGAME, GRADIO, STREAMLIT, NICEGUI,
     PYTHON_CODE_INTERPRETER, JAVASCRIPT_CODE_INTERPRETER}

\* ------------------------------------------------------------ configuration
\* update_sandbox_config that also forgets the automatic selection (a faulty
\* variant C17 must tell apart).
update_sandbox_configForgetsSelection(enable_sandbox, sandbox_environment, state) ==
    [state EXCEPT
        !.enable_sandbox = enable_sandbox,
        !.sandbox_environment = sandbox_environment,
        !.sandbox_instruction =
            DictGet(DEFAULT_SANDBOX_INSTRUCTIONS, sandbox_environment),
        !.auto_selected_sandbox_environment = None]

update_sandbox_config(enable_sandbox, sandbox_environment, state) ==
    [state EXCEPT
        !.enable_sandbox = enable_sandbox,
        !.sandbox_environment = sandbox_environment,
        !.sandbox_instruction =
            DictGet(DEFAULT_SANDBOX_INSTRUCTIONS, sandbox_environment)]

\* update_sandbox_config_multi that configures only the first of the states (a
\* faulty variant C40 must tell apart).
update_sandbox_config_multiFirstOnly(enable_sandbox, sandbox_environment, sts) ==
    [s \in DOMAIN sts |->
        IF \A o \in DOMAIN sts : s <= o
        THEN update_sandbox_config(enable_sandbox, sandbox_environment, sts[s])
        ELSE sts[s]]

update_sandbox_config_multi(enable_sandbox, sandbox_environment, sts) ==
    [s \in DOMAIN sts |->
        update_sandbox_config(enable_sandbox, sandbox_environment, sts[s])]

\* update_system_prompt_both, for one side.
update_system_prompt(system_prompt, state) ==
    IF state.enabled_round = 0
    THEN [state EXCEPT !.sandbox_instruction = system_prompt]
    ELSE state

\* ------------------------------------------------------------ conversation
NoState == [created |-> FALSE, system_message |-> <<>>, skip_next |-> FALSE]
NewState == [NoState EXCEPT !.created = TRUE]
InitState(st) == IF st.created THEN st ELSE NewState

\* One side's pass through the loop of update_sandbox_system_messages_multi.
\* The loop body without the test of enabled_round (a faulty variant C16 must
\* tell apart from SandboxSystemMessage).
SandboxSystemMessageUnguarded(st, sandbox_state) ==
    IF sandbox_state.enable_sandbox = FALSE
    THEN <<InitState(st), sandbox_state>>
    ELSE <<[InitState(st) EXCEPT !.system_message =
                Append(@, sandbox_state.sandbox_instruction)],
           [sandbox_state EXCEPT !.enabled_round = @ + 1]>>

SandboxSystemMessage(st, sandbox_state) ==
    IF sandbox_state.enable_sandbox = FALSE \/ sandbox_state.enabled_round > 0
    THEN <<InitState(st), sandbox_state>>
    ELSE <<[InitState(st) EXCEPT !.system_message =
                Append(@, sandbox_state.sandbox_instruction)],
           [sandbox_state EXCEPT !.enabled_round = @ + 1]>>

\* ------------------------------------------------------------------ inputs
SystemPrompts == {Template(AUTO), "custom system prompt"}
SendTexts == {"", "hi"}

\* The chat messages a user may click "run" on.
ChatMessages ==
    << <<Prose, Block("Python", <<Import(<<"numpy">>), Stmt, Blank>>)>>,
       <<Block("tsx", <<JsImport(<<"react">>), Jsx>>)>>,
       <<Block("py", <<Import(<<"gradio">>), Name("gr", 1)>>)>>,
       <<Block("", <<Doctype, Stmt>>), Prose>>,
       <<Block("c", <<Stmt>>)>>,
       <<Prose>>,
       <<Block("python", <<Blank>>)>>,
       <<Block("python", <<Stmt>>), Prose, Block("javascript", <<Stmt, Stmt>>)>> >>

MessageIds == 1..Len(ChatMessages)

EditTexts == {<<>>, <<Blank>>, <<Stmt, Blank>>, <<Import(<<"numpy">>), Stmt>>}

\* ------------------------------------------------------------------ history
\* No function is being applied on its own.
NoProbe == [fn |-> None, arg |-> None, out |-> None, done |-> FALSE]

NoStreak == [side |-> -1, msg |-> 0, runs |-> 0, dispatches |-> 0]

\* ---------------------------------------------------------------- initially
Init ==
    /\ E2B_API_KEY \in BOOLEAN
    /\ enable_sandbox_checkbox = FALSE
    /\ sandbox_env_choice \in {None, SUPPORTED_SANDBOX_ENVIRONMENTS[1]}
    /\ env_choice_interactive = TRUE
    /\ system_prompt_textbox = DEFAULT_SANDBOX_INSTRUCTIONS[AUTO]
    /\ sandbox_states = [s \in Sides |-> create_chatbot_sandbox_state(8)]
    /\ states = [s \in Sides |-> NoState]
    /\ chain = [pc |-> "idle", text |-> ""]
    /\ call = [s \in Sides |-> [h \in Kinds |-> IdleCall]]
    /\ last = [s \in Sides |-> NeverRan]
    /\ streak = NoStreak
    /\ events = 0
    /\ cleared = [s \in Sides |-> FALSE]
    /\ probe = NoProbe

UserEvent ==
    /\ events < MaxEvents
    /\ events' = events + 1

\* ------------------------------------------------- configuration events
\* enable_sandbox_checkbox.change: update_visibility, then
\* update_sandbox_config_multi.
CheckboxChange ==
    /\ UserEvent
    /\ enable_sandbox_checkbox' = ~enable_sandbox_checkbox
    /\ sandbox_states' =
           update_sandbox_config_multi(enable_sandbox_checkbox',
                                       sandbox_env_choice, sandbox_states)
    /\ streak' = NoStreak
    /\ UNCHANGED <<probe, cleared, E2B_API_KEY, sandbox_env_choice, env_choice_interactive,
                   system_prompt_textbox, states, chain, call, last>>

\* sandbox_env_choice.change; the dropdown is shown while the checkbox is set.
EnvChoiceChange ==
    \E v \in SandboxEnvironment :
        /\ UserEvent
        /\ enable_sandbox_checkbox
        /\ env_choice_interactive
        /\ v # sandbox_env_choice
        /\ sandbox_env_choice' = v
        /\ sandbox_states' =
               update_sandbox_config_multi(enable_sandbox_checkbox, v,
                                           sandbox_states)
        /\ streak' = NoStreak
        /\ UNCHANGED <<probe, cleared, E2B_API_KEY, enable_sandbox_checkbox,
                       env_choice_interactive, system_prompt_textbox, states,
                       chain, call, last>>

SystemPromptEdit ==
    \E p \in SystemPrompts \ {system_prompt_textbox} :
        /\ UserEvent
        /\ system_prompt_textbox' = p
        /\ streak' = NoStreak
        /\ UNCHANGED <<probe, cleared, E2B_API_KEY, enable_sandbox_checkbox, sandbox_env_choice,
                       env_choice_interactive, sandbox_states, states, chain,
                       call, last>>

\* ------------------------------------------------------------ the send chain
\* textbox.submit / send_btn.click: update_system_prompt_both, then ...
SendPrompt ==
    \E text \in SendTexts :
        /\ UserEvent
        /\ chain.pc = "idle"
        /\ sandbox_states' =
               [s \in Sides |->
                   update_system_prompt(system_prompt_textbox, sandbox_states[s])]
        /\ chain' = [pc |-> "add_text_multi", text |-> text]
        /\ streak' = NoStreak
        /\ UNCHANGED <<probe, cleared, E2B_API_KEY, ui_vars, states, call, last>>

\* ... then add_text_multi ...
add_text_multi ==
    /\ chain.pc = "add_text_multi"
    /\ states' =
           [s \in Sides |->
               [InitState(states[s]) EXCEPT !.skip_next = (chain.text = "")]]
    /\ chain' = [chain EXCEPT !.pc = "update_sandbox_system_messages_multi"]
    /\ streak' = NoStreak
    /\ UNCHANGED <<probe, cleared, E2B_API_KEY, ui_vars, sandbox_states, call, last, events>>

\* ... then update_sandbox_system_messages_multi ...
update_sandbox_system_messages_multi ==
    /\ chain.pc = "update_sandbox_system_messages_multi"
    /\ states' =
           [s \in Sides |-> SandboxSystemMessage(states[s], sandbox_states[s])[1]]
    /\ sandbox_states' =
           [s \in Sides |-> SandboxSystemMessage(states[s], sandbox_states[s])[2]]
    /\ chain' = [chain EXCEPT !.pc = "bot_response_multi"]
    /\ streak' = NoStreak
    /\ UNCHANGED <<probe, cleared, E2B_API_KEY, ui_vars, call, last, events>>

\* ... then bot_response_multi and flash_buttons (no effect on the sandbox),
\* then the dropdown is made interactive or not, by the first side's lock.
SendFinish ==
    /\ chain.pc = "bot_response_multi"
    /\ env_choice_interactive' = (sandbox_states[0].enabled_round = 0)
    /\ chain' = [pc |-> "idle", text |-> ""]
    /\ streak' = NoStreak
    /\ UNCHANGED <<probe, cleared, E2B_API_KEY, enable_sandbox_checkbox, sandbox_env_choice,
                   system_prompt_textbox, sandbox_states, states, call, last,
                   events>>

\* clear_btn.click / model_selectors[i].change: clear_history, then ...
\* A clear_history that also drops the pending code of the sides (a faulty
\* variant C38 must tell apart from clear_history).
clear_historyDropsPending ==
    /\ UserEvent
    /\ chain.pc = "idle"
    /\ sandbox_states' =
           [s \in Sides |->
               [sandbox_states[s] EXCEPT !.enabled_round = 0,
                                         !.code_to_execute = <<>>,
                                         !.code_language = None]]
    /\ states' = [s \in Sides |-> NoState]
    /\ chain' = [pc |-> "clear_sandbox_components", text |-> ""]
    /\ streak' = NoStreak
    /\ cleared' = [s \in Sides |-> TRUE]
    /\ UNCHANGED <<probe, E2B_API_KEY, ui_vars, call, last>>

clear_history ==
    /\ UserEvent
    /\ chain.pc = "idle"
    /\ sandbox_states' =
           [s \in Sides |-> [sandbox_states[s] EXCEPT !.enabled_round = 0]]
    /\ states' = [s \in Sides |-> NoState]
    /\ chain' = [pc |-> "clear_sandbox_components", text |-> ""]
    /\ streak' = NoStreak
    /\ cleared' = [s \in Sides |-> TRUE]
    /\ UNCHANGED <<probe, E2B_API_KEY, ui_vars, call, last>>

\* ... clear_sandbox_components, then the dropdown is made interactive.
ClearFinish ==
    /\ chain.pc = "clear_sandbox_components"
    /\ env_choice_interactive' = TRUE
    /\ chain' = [pc |-> "idle", text |-> ""]
    /\ streak' = NoStreak
    /\ UNCHANGED <<probe, cleared, E2B_API_KEY, enable_sandbox_checkbox, sandbox_env_choice,
                   system_prompt_textbox, sandbox_states, states, call, last,
                   events>>

\* ------------------------------------------------------- code panel events
CanStart(s, h) ==
    /\ call[s][h].pc = "idle"
    /\ Cardinality(InFlight) < MaxInFlight

\* How far on_edit_code gets before its first yield.
\* on_edit_code without the comparison with the pending code (a faulty
\* variant C3 must tell apart from EditOutcome).
EditOutcomeNoComparison(st, sandbox_code) ==
    IF st.enable_sandbox = FALSE THEN "disabled"
    ELSE IF Len(Strip(sandbox_code)) = 0 THEN "skip"
    ELSE RunEntry([st EXCEPT !.code_to_execute = sandbox_code])

EditOutcome(st, sandbox_code) ==
    IF st.enable_sandbox = FALSE THEN "disabled"
    ELSE IF Len(Strip(sandbox_code)) = 0 \/ sandbox_code = st.code_to_execute
    THEN "skip"
    ELSE RunEntry([st EXCEPT !.code_to_execute = sandbox_code])

\* on_edit_code on side s, through on_run_code's first yield.
\* on_edit_code storing the text in one state object shared by the sides (a
\* faulty variant C19 must tell apart from Edit).
EditSharedState(s, sandbox_code) ==
    LET st == sandbox_states[s]
        outcome == EditOutcome(st, sandbox_code)
    IN
    /\ UserEvent
    /\ CanStart(s, "edit")
    /\ streak' = NoStreak
    /\ sandbox_states' =
           IF outcome \in {"disabled", "skip"} THEN sandbox_states
           ELSE [o \in Sides |->
                    [sandbox_states[o] EXCEPT !.code_to_execute = sandbox_code]]
    /\ Enter(s, "edit", EditInput(sandbox_code), outcome, sandbox_states'[s])
    /\ UNCHANGED <<probe, cleared, E2B_API_KEY, ui_vars, states, chain>>

Edit(s, sandbox_code) ==
    LET st == sandbox_states[s]
        outcome == EditOutcome(st, sandbox_code)
    IN
    /\ UserEvent
    /\ CanStart(s, "edit")
    /\ streak' = NoStreak
    /\ sandbox_states' =
           IF outcome \in {"disabled", "skip"} THEN sandbox_states
           ELSE [sandbox_states EXCEPT ![s].code_to_execute = sandbox_code]
    /\ Enter(s, "edit", EditInput(sandbox_code), outcome, sandbox_states'[s])
    /\ UNCHANGED <<probe, cleared, E2B_API_KEY, ui_vars, states, chain>>

\* sandbox_code_submit_btn.click
on_edit_code == \E s \in Sides, sandbox_code \in EditTexts : Edit(s, sandbox_code)

\* The pending fields MessageRun stores for an accepted extraction.
\* The stores of on_click_code_message_run with the automatic selection
\* written under every configuration (a faulty variant C5 must tell apart).
AcceptExtractionAlwaysSelects(st, r) ==
    [st EXCEPT
        !.code_to_execute = r.code,
        !.code_language = GradioLanguage(r.code_lang),
        !.code_dependencies = r.deps,
        !.auto_selected_sandbox_environment = r.env]

AcceptExtraction(st, r) ==
    [st EXCEPT
        !.code_to_execute = r.code,
        !.code_language = GradioLanguage(r.code_lang),
        !.code_dependencies = r.deps,
        !.auto_selected_sandbox_environment =
            IF st.sandbox_environment = AUTO THEN r.env ELSE @]

\* "skip if no changes"
SameAsPending(st, r) ==
    /\ st.code_to_execute = r.code
    /\ st.code_language = r.code_lang
    /\ st.code_dependencies = r.deps

\* evt.value: a chat message, with the run button appended to it or not.
ClickValues ==
    {ClickInput(m, TRUE) : m \in MessageIds} \cup {ClickInput(1, FALSE)}

Extraction(st, evt) ==
    extract_code_from_markdown(ChatMessages[evt.m], st.sandbox_environment = AUTO)

\* How far on_click_code_message_run gets before its first yield.
\* on_click_code_message_run without the test of the extraction's result (a
\* faulty variant C4 must tell apart from MessageRunOutcome).
MessageRunOutcomeNoExtractionTest(st, evt) ==
    IF st.enable_sandbox = FALSE THEN "disabled"
    ELSE IF ~evt.has_button THEN "skip"
    ELSE IF SameAsPending(st, Extraction(st, evt)) THEN "skip"
    ELSE RunEntry(AcceptExtraction(st, Extraction(st, evt)))

MessageRunOutcome(st, evt) ==
    IF st.enable_sandbox = FALSE THEN "disabled"
    ELSE IF ~evt.has_button THEN "skip"
    ELSE IF Extraction(st, evt).is_none THEN "skip"
    ELSE IF SameAsPending(st, Extraction(st, evt)) THEN "skip"
    ELSE RunEntry(AcceptExtraction(st, Extraction(st, evt)))

StreakAfter(s, evt) ==
    LET st == sandbox_states[s] IN
    IF ~(E2B_API_KEY /\ evt.has_button /\ st.enable_sandbox
         /\ ~Extraction(st, evt).is_none
         /\ EffectiveEnvironment(AcceptExtraction(st, Extraction(st, evt)))
                \in Dispatchable)
    THEN NoStreak
    ELSE IF streak.side = s /\ streak.msg = evt.m /\ streak.runs = 1
    THEN [streak EXCEPT !.runs = 2]
    ELSE IF MessageRunOutcome(st, evt) # "skip"
    THEN [side |-> s, msg |-> evt.m, runs |-> 1, dispatches |-> 0]
    ELSE NoStreak

\* on_click_code_message_run on side s, through on_run_code's first yield.
MessageRun(s, evt) ==
    LET st == sandbox_states[s]
        outcome == MessageRunOutcome(st, evt)
    IN
    /\ UserEvent
    /\ CanStart(s, "msg")
    /\ streak' = StreakAfter(s, evt)
    /\ sandbox_states' =
           IF outcome \in {"disabled", "skip"} THEN sandbox_states
           ELSE [sandbox_states EXCEPT
                    ![s] = AcceptExtraction(st, Extraction(st, evt))]
    /\ Enter(s, "msg", evt, outcome, sandbox_states'[s])
    /\ cleared' = [cleared EXCEPT ![s] = FALSE]
    /\ UNCHANGED <<probe, E2B_API_KEY, ui_vars, states, chain>>

\* chatbots[i].select
on_click_code_message_run == \E s \in Sides, evt \in ClickValues : MessageRun(s, evt)

\* ------------------------------------------------------------ run, continued
\* on_run_code after the loading yield: the environment and the dependencies
\* are read from the state, and the match statement picks the handler.
Dispatch ==
    \E s \in Sides, h \in Kinds :
        LET c == call[s][h]
            sandbox_env == EffectiveEnvironment(sandbox_states[s])
            ops == HandlerOps(sandbox_env, sandbox_states[s].code_dependencies)
        IN
        /\ c.pc = "loaded"
        /\ IF ops = <<>>
           THEN /\ Finish(s, h, "unsupported environment", c.emitted)
                /\ UNCHANGED streak
           ELSE /\ call' = [call EXCEPT ![s][h] =
                               [c EXCEPT !.pc = "remote",
                                         !.handler = sandbox_env,
                                         !.ops = ops]]
                /\ streak' = IF h = "msg" /\ streak.side = s
                             THEN [streak EXCEPT !.dispatches = @ + 1]
                             ELSE streak
                /\ UNCHANGED last
        /\ UNCHANGED <<probe, cleared, E2B_API_KEY, ui_vars, sandbox_states, states, chain, events>>

\* What the handler's return value is rendered as.
\* A terminal rendering that shows the served view for every handler (a
\* faulty variant C9 must tell apart from Terminal).
TerminalAlwaysServed(handler) == Running("https://" \o get_host("3000"))

Terminal(handler) ==
    IF handler \in {PYTHON_CODE_INTERPRETER, JAVASCRIPT_CODE_INTERPRETER}
    THEN Printed("output")
    ELSE Running("https://" \o get_host(ExposedPort(handler))
                     \o UrlSuffix(handler))

\* The next remote call of the handler succeeds; after the last one the handler
\* returns and the terminal rendering is yielded.
RemoteCall ==
    \E s \in Sides, h \in Kinds :
        LET c == call[s][h] IN
        /\ c.pc = "remote"
        /\ IF c.issued + 1 = Len(c.ops)
           THEN Finish(s, h, "returned", Append(c.emitted, Terminal(c.handler)))
           ELSE /\ call' = [call EXCEPT ![s][h].issued = @ + 1]
                /\ UNCHANGED last
        /\ UNCHANGED <<probe, cleared, E2B_API_KEY, ui_vars, sandbox_states, states, chain,
                       streak, events>>

\* The next remote call raises (a timeout, a failing command, a service error).
\* A raising remote call that the handler swallows and goes past (a faulty
\* variant C13 must tell apart from RemoteFailure).
RemoteFailureSwallowed ==
    \E s \in Sides, h \in Kinds :
        LET c == call[s][h] IN
        /\ c.pc = "remote"
        /\ c.issued + 1 < Len(c.ops)
        /\ call' = [call EXCEPT ![s][h].issued = @ + 1]
        /\ last' = [last EXCEPT ![s] =
                       Ended(h, c.arg, "remote failure", c.handler, c.emitted)]
        /\ UNCHANGED <<probe, cleared, E2B_API_KEY, ui_vars, sandbox_states, states, chain,
                       streak, events>>

\* A raising remote call after which the Run drops the pending code (a faulty
\* variant C30 must tell apart from RemoteFailure).
RemoteFailureClearsPending ==
    \E s \in Sides, h \in Kinds :
        LET c == call[s][h] IN
        /\ c.pc = "remote"
        /\ Finish(s, h, "remote failure", c.emitted)
        /\ sandbox_states' = [sandbox_states EXCEPT ![s].code_to_execute = <<>>]
        /\ UNCHANGED <<probe, cleared, E2B_API_KEY, ui_vars, states, chain, streak, events>>

RemoteFailure ==
    \E s \in Sides, h \in Kinds :
        LET c == call[s][h] IN
        /\ c.pc = "remote"
        /\ Finish(s, h, "remote failure", c.emitted)
        /\ UNCHANGED <<probe, cleared, E2B_API_KEY, ui_vars, sandbox_states, states, chain,
                       streak, events>>

Next ==
    \/ CheckboxChange
    \/ EnvChoiceChange
    \/ SystemPromptEdit
    \/ SendPrompt
    \/ add_text_multi
    \/ update_sandbox_system_messages_multi
    \/ SendFinish
    \/ clear_history
    \/ ClearFinish
    \/ on_edit_code
    \/ on_click_code_message_run
    \/ Dispatch
    \/ RemoteCall
    \/ RemoteFailure

Spec == Init /\ [][Next]_vars

\* --------------------------------------------------- a session under way
\* The tab after the checkbox was ticked, 'Python Code Interpreter' chosen in
\* the dropdown, and the run button of the first chat message clicked on the
\* first side: its block was accepted and the interpreter returned.  The
\* state is one Spec reaches with its third event; from here the behaviours
\* go MaxEvents events further.
AfterRun ==
    LET configured ==
            update_sandbox_config_multi(
                TRUE, PYTHON_CODE_INTERPRETER,
                [s \in Sides |-> create_chatbot_sandbox_state(8)])
        evt == ClickInput(1, TRUE)
    IN
    /\ E2B_API_KEY = TRUE
    /\ enable_sandbox_checkbox = TRUE
    /\ sandbox_env_choice = PYTHON_CODE_INTERPRETER
    /\ env_choice_interactive = TRUE
    /\ system_prompt_textbox = DEFAULT_SANDBOX_INSTRUCTIONS[AUTO]
    /\ sandbox_states =
           [configured EXCEPT
               ![0] = AcceptExtraction(@, Extraction(@, evt))]
    /\ states = [s \in Sides |-> NoState]
    /\ chain = [pc |-> "idle", text |-> ""]
    /\ call = [s \in Sides |-> [h \in Kinds |-> IdleCall]]
    /\ last = [s \in Sides |->
                  IF s = 0
                  THEN Ended("msg", evt, "returned", PYTHON_CODE_INTERPRETER,
                             <<Loading, Terminal(PYTHON_CODE_INTERPRETER)>>)
                  ELSE NeverRan]
    /\ streak = [side |-> 0, msg |-> 1, runs |-> 1, dispatches |-> 1]
    /\ cleared = [s \in Sides |-> FALSE]
    /\ probe = NoProbe

InitAfterRun == AfterRun /\ events = 0

SpecAfterRun == InitAfterRun /\ [][Next]_vars

\* ------------------------------------------------ the helpers on their own
\* The helper functions of code_runner.py take no part of the session's
\* state: each is applied once to an input drawn from a bounded set, and the
\* arena tab stays as it was built.
session_vars ==
    <<E2B_API_KEY, ui_vars, sandbox_states, states, chain, call, last, streak,
      events, cleared>>

\* All sequences over S of length at most n.
SeqsUpTo(S, n) == UNION {[1..k -> S] : k \in 0..n}

\* Package names as the install helpers receive them.
DependencyLists == SeqsUpTo({"numpy", "requests", "lodash"}, MaxDeps)

\* Lines of Python fragments: absolute, dotted, relative and standard-library
\* imports, imports of the four frameworks, bare names at two depths of the
\* tree, a line that does not parse.
PythonLines ==
    {Import(<<"pygame">>), Import(<<"gradio">>), Import(<<"streamlit">>),
     Import(<<"nicegui">>), Import(<<"numpy", "linalg">>), Import(<<"os">>),
     FromImport(0, <<"requests">>), FromImport(0, <<"json">>),
     FromImport(1, <<"helpers">>), FromImport(2, <<>>),
     Name("gr", 0), Name("gr", 1), Name("st", 0), Name("st", 1),
     Stmt, SyntaxErr}

PythonFragments == SeqsUpTo(PythonLines, MaxLines)

\* Lines of JavaScript / TypeScript fragments.
JsLines ==
    {JsImport(<<"react">>), JsImport(<<"vue">>), JsImport(<<"lodash", "fp">>),
     JsImport(<<".", "local">>), Require(<<"next">>), Jsx, Stmt}

JsFragments == SeqsUpTo(JsLines, MaxLines)

\* Segments of chat messages: prose without and with words, fenced blocks
\* with a word tag, no tag, and an info string the pattern does not accept.
MessageSegments ==
    {Prose, Say(<<Words>>)}
        \cup {Block(tag, body) :
                 tag \in {"python", "js", "", "c++"},
                 body \in {<<Stmt>>, <<Blank, Stmt>>, <<Stmt, Stmt>>}}

Messages == SeqsUpTo(MessageSegments, MaxSegments)

Apply(fn, arg) == [fn |-> fn, arg |-> arg, out |-> None, done |-> FALSE]

InstallInputs ==
    {Apply(fn, d) : fn \in {"install_pip_dependencies",
                            "install_npm_dependencies"},
                    d \in DependencyLists}

PythonInputs ==
    {Apply(fn, code) : fn \in {"extract_python_imports",
                               "determine_python_environment"},
                       code \in PythonFragments}

JsInputs == {Apply("determine_js_environment", code) : code \in JsFragments}

MarkdownInputs ==
    {Apply("extract_code_from_markdown",
           [message |-> m, enable_auto_env |-> b]) :
        m \in Messages, b \in BOOLEAN}

\* An artifact with the given formats set.
Artifact(formats, str) ==
    [f \in {ResultFormats[i] : i \in 1..Len(ResultFormats)} \cup {"str"} |->
        IF f = "str" THEN str ELSE IF f \in formats THEN "<" \o f \o ">" ELSE ""]

\* Every combination of formats on one artifact.
Artifacts ==
    {Artifact(formats, "Result()") :
        formats \in SUBSET {ResultFormats[i] : i \in 1..Len(ResultFormats)}}

RenderInputs == {Apply("render_result", a) : a \in Artifacts}

\* Executions: lines of the two streams, and a few artifacts of the kinds the
\* interpreter meets (text, a chart, a page, a script, a chart with a script).
Executions ==
    [stdout : SeqsUpTo({"", "out"}, MaxLines),
     stderr : SeqsUpTo({"", "err"}, MaxLines),
     results : SeqsUpTo({Artifact({}, "4"), Artifact({"png"}, "Figure"),
                         Artifact({"html"}, "HTML"),
                         Artifact({"javascript"}, "Javascript"),
                         Artifact({"png", "javascript"}, "Figure")},
                        MaxResults)]

InterpreterInputs == {Apply("run_code_interpreter", e) : e \in Executions}

\* States a side can be in when its configuration is updated: fresh, with
\* code pending under Auto, and locked under a fixed environment.
SideStates ==
    LET fresh == create_chatbot_sandbox_state(8) IN
    {fresh,
     AcceptExtraction(update_sandbox_config(TRUE, AUTO, fresh),
                      extract_code_from_markdown(ChatMessages[1], TRUE)),
     [update_sandbox_config(TRUE, REACT, fresh) EXCEPT !.enabled_round = 1]}

ConfigInputs ==
    {Apply("update_sandbox_config_multi",
           [enable_sandbox |-> e, sandbox_environment |-> v, states |-> sts]) :
        e \in BOOLEAN, v \in SandboxEnvironment \cup {None},
        sts \in SeqsUpTo(SideStates, MaxStates)}

InitHelpers ==
    /\ E2B_API_KEY = FALSE
    /\ enable_sandbox_checkbox = FALSE
    /\ sandbox_env_choice = None
    /\ env_choice_interactive = TRUE
    /\ system_prompt_textbox = DEFAULT_SANDBOX_INSTRUCTIONS[AUTO]
    /\ sandbox_states = [s \in Sides |-> create_chatbot_sandbox_state(8)]
    /\ states = [s \in Sides |-> NoState]
    /\ chain = [pc |-> "idle", text |-> ""]
    /\ call = [s \in Sides |-> [h \in Kinds |-> IdleCall]]
    /\ last = [s \in Sides |-> NeverRan]
    /\ streak = NoStreak
    /\ events = 0
    /\ cleared = [s \in Sides |-> FALSE]
    /\ \/ probe \in InstallInputs
       \/ probe \in PythonInputs
       \/ probe \in JsInputs
       \/ probe \in MarkdownInputs
       \/ probe \in RenderInputs
       \/ probe \in InterpreterInputs
       \/ probe \in ConfigInputs

Returns(fn, out) ==
    /\ probe.fn = fn
    /\ ~probe.done
    /\ probe' = [probe EXCEPT !.out = out, !.done = TRUE]
    /\ UNCHANGED session_vars

CallInstallPip ==
    Returns("install_pip_dependencies", install_pip_dependencies(probe.arg))

CallInstallNpm ==
    Returns("install_npm_dependencies", install_npm_dependencies(probe.arg))

CallExtractPythonImports ==
    Returns("extract_python_imports", extract_python_imports(probe.arg))

\* As extract_code_from_markdown calls it: on the imports just extracted.
CallDeterminePythonEnvironment ==
    Returns("determine_python_environment",
            determine_python_environment(probe.arg,
                                         extract_python_imports(probe.arg)))

CallDetermineJsEnvironment ==
    Returns("determine_js_environment",
            determine_js_environment(probe.arg, extract_js_imports(probe.arg)))

CallExtractCodeFromMarkdown ==
    Returns("extract_code_from_markdown",
            extract_code_from_markdown(probe.arg.message,
                                       probe.arg.enable_auto_env))

CallRenderResult == Returns("render_result", render_result(probe.arg))

\* run_code_interpreter from the return of sandbox.run_code on.
CallRunCodeInterpreter == Returns("run_code_interpreter", Output(probe.arg))

CallUpdateSandboxConfigMulti ==
    Returns("update_sandbox_config_multi",
            update_sandbox_config_multi(probe.arg.enable_sandbox,
                                        probe.arg.sandbox_environment,
                                        probe.arg.states))

NextHelpers ==
    \/ CallInstallPip
    \/ CallInstallNpm
    \/ CallExtractPythonImports
    \/ CallDeterminePythonEnvironment
    \/ CallDetermineJsEnvironment
    \/ CallExtractCodeFromMarkdown
    \/ CallRenderResult
    \/ CallRunCodeInterpreter
    \/ CallUpdateSandboxConfigMulti

SpecHelpers == InitHelpers /\ [][NextHelpers]_vars

\* ------------------------------------------------------------------ claims
Locked(st) == st.enabled_round > 0

\* C1: while a side's configuration is locked (enabled_round > 0 before and
\* after the step, so until clear_history resets the lock), no step changes
\* that side's sandbox_instruction or sandbox_environment.
C1_LockedConfigFrozen ==
    [][\A s \in Sides :
          (Locked(sandbox_states[s]) /\ Locked(sandbox_states'[s])) =>
              /\ sandbox_states'[s].sandbox_instruction
                     = sandbox_states[s].sandbox_instruction
              /\ sandbox_states'[s].sandbox_environment
                     = sandbox_states[s].sandbox_environment]_vars

\* C2: two consecutive MessageRun events on the same chat message (side
\* enabled, credential present, extraction succeeding, nothing in between)
\* dispatch exactly one remote execution between them.
C2_TwoMessageRunsOneDispatch ==
    (streak.runs = 2 /\ call[streak.side]["msg"].pc = "idle")
        => streak.dispatches = 1

\* Whether a step of Edit or MessageRun on side s went into on_run_code.
RunEntered(s, h) ==
    \/ call[s][h].pc = "idle" /\ call'[s][h].pc = "loaded"
    \/ /\ last'[s].by = h
       /\ last'[s].outcome \in {"no credential", "nothing to run"}
       /\ call' = call

NoOp == sandbox_states' = sandbox_states /\ call' = call

\* C3 as claimed: Edit is a no-op when the side is disabled, the new text is
\* empty or the new text equals code_to_execute; in every other case
\* code_to_execute becomes the new text and Run is entered.
C3_EditNoOpOnEmptyText ==
    [][\A s \in Sides, text \in EditTexts :
          Edit(s, text) =>
              IF \/ sandbox_states[s].enable_sandbox = FALSE
                 \/ text = <<>>
                 \/ text = sandbox_states[s].code_to_execute
              THEN NoOp
              ELSE /\ sandbox_states'[s].code_to_execute = text
                   /\ RunEntered(s, "edit")]_vars

\* C3, amended: Edit is a no-op when the side is disabled, the new text is
\* empty once stripped of surrounding whitespace, or the new text equals
\* code_to_execute; in every other case code_to_execute becomes the new text,
\* nothing else of the state changes, and Run is entered.
C3_EditNoOpOnBlankText ==
    [][\A s \in Sides, text \in EditTexts :
          Edit(s, text) =>
              IF \/ sandbox_states[s].enable_sandbox = FALSE
                 \/ \A i \in 1..Len(text) : text[i].k = "blank"
                 \/ text = sandbox_states[s].code_to_execute
              THEN NoOp
              ELSE /\ sandbox_states' =
                          [sandbox_states EXCEPT ![s].code_to_execute = text]
                   /\ RunEntered(s, "edit")]_vars

\* An Edit with the pending code itself was skipped.
C3_Witness ==
    \E s \in Sides :
        /\ last[s].by = "edit"
        /\ last[s].outcome = "skip"
        /\ last[s].arg.text # <<>>
        /\ last[s].arg.text = sandbox_states[s].code_to_execute
        /\ sandbox_states[s].enable_sandbox

\* What every step MessageRun(s, evt) leaves behind: evt as the input of the
\* invocation now in flight, or of the one that just ended.  MessageRun(s, evt)
\* implies it; the formulas state it first to find the step's input.
ClickTaken(s, evt) ==
    \/ call'[s]["msg"].pc = "loaded" /\ call'[s]["msg"].arg = evt
    \/ last'[s].by = "msg" /\ last'[s].arg = evt

\* C4: MessageRun on a disabled side, or on a message whose extraction
\* fails, leaves the SandboxState unchanged and starts no remote call.
C4_MessageRunNoOp ==
    [][\A s \in Sides, evt \in ClickValues :
          (/\ ClickTaken(s, evt)
           /\ MessageRun(s, evt)
           /\ \/ sandbox_states[s].enable_sandbox = FALSE
              \/ Extraction(sandbox_states[s], evt).is_none)
          => NoOp]_vars

\* A MessageRun on an enabled side ended at a message with no code block.
C4_Witness ==
    \E s \in Sides :
        /\ last[s].by = "msg"
        /\ last[s].outcome = "skip"
        /\ last[s].arg.has_button
        /\ sandbox_states[s].enable_sandbox
        /\ Matches(ChatMessages[last[s].arg.m]) = <<>>

\* C5: an accepted MessageRun stores the extracted code and dependencies,
\* stores 'typescript' for tag 'tsx', the tag itself when the code component
\* supports it and none otherwise, writes auto_selected_sandbox_environment
\* (the inferred tag) exactly when sandbox_environment is Auto, and leaves
\* enable_sandbox, sandbox_environment, sandbox_instruction, enabled_round alone.
C5_MessageRunStores ==
    [][\A s \in Sides, evt \in ClickValues :
          LET st == sandbox_states[s]
              r == Extraction(st, evt)
          IN (/\ ClickTaken(s, evt)
              /\ MessageRun(s, evt)
              /\ st.enable_sandbox
              /\ evt.has_button
              /\ ~r.is_none
              /\ ~(/\ st.code_to_execute = r.code
                   /\ st.code_language = r.code_lang
                   /\ st.code_dependencies = r.deps))
             => /\ sandbox_states'[s].code_to_execute = r.code
                /\ sandbox_states'[s].code_dependencies = r.deps
                /\ sandbox_states'[s].code_language =
                       (IF r.code_lang = "tsx" THEN "typescript"
                        ELSE IF r.code_lang \in VALID_GRADIO_CODE_LANGUAGES
                        THEN r.code_lang ELSE None)
                /\ IF st.sandbox_environment = AUTO
                   THEN /\ r.env \in SandboxEnvironment \ {AUTO}
                        /\ sandbox_states'[s].auto_selected_sandbox_environment = r.env
                   ELSE sandbox_states'[s].auto_selected_sandbox_environment
                            = st.auto_selected_sandbox_environment
                /\ sandbox_states'[s].enable_sandbox = st.enable_sandbox
                /\ sandbox_states'[s].sandbox_environment = st.sandbox_environment
                /\ sandbox_states'[s].sandbox_instruction = st.sandbox_instruction
                /\ sandbox_states'[s].enabled_round = st.enabled_round
                /\ \A o \in Sides \ {s} : sandbox_states'[o] = sandbox_states[o]]_vars

\* A tsx block was accepted on an Auto side and is running.
C5_Witness ==
    \E s \in Sides :
        /\ call[s]["msg"].pc = "loaded"
        /\ ChatMessages[call[s]["msg"].arg.m][1].tag = "tsx"
        /\ sandbox_states[s].sandbox_environment = AUTO
        /\ sandbox_states[s].code_language = "typescript"
        /\ sandbox_states[s].auto_selected_sandbox_environment = REACT

\* C6: without the credential nothing is ever in flight (no remote call is
\* made), and every Run on an enabled side has ended in the credential error.
C6_NoCredentialNoRemoteCall ==
    ~E2B_API_KEY =>
        \A s \in Sides :
            /\ \A h \in Kinds : call[s][h].pc = "idle" /\ call[s][h].issued = 0
            /\ last[s].outcome \in {"never", "disabled", "skip", "no credential"}
            /\ last[s].emitted \in {<<>>, <<AllNone>>, <<AllSkip>>}

\* Without the credential, a Run on an enabled side raised.
C6_Witness ==
    /\ ~E2B_API_KEY
    /\ \E s \in Sides :
           /\ last[s].outcome = "no credential"
           /\ sandbox_states[s].enable_sandbox
           /\ sandbox_states[s].code_to_execute # <<>>

\* C7: a Run goes past its guard (emits loading, reaches the dispatcher) only
\* with a non-empty pending code and a pending language.
C7_RunNeedsCodeAndLanguage ==
    \A s \in Sides, h \in Kinds :
        call[s][h].pc # "idle" =>
            /\ call[s][h].code # <<>>
            /\ call[s][h].lang # None

\* Where a handler puts the code: the file it writes, or the interpreter call.
CodeSinks(ops) ==
    {ops[i].arg : i \in {j \in 1..Len(ops) : ops[j].op \in {"write", "run_code"}}}

ExpectedSink(env) ==
    CASE env = HTML -> "~/myhtml/main.html"
      [] env = REACT -> "~/pages/index.tsx"
      [] env = VUE -> "~/app.vue"
      [] env = PYGAME -> "~/mygame/main.py"
      [] env = GRADIO -> "~/app.py"
      [] env = STREAMLIT -> "~/mystreamlit/app.py"
      [] env = NICEGUI -> "~/mynicegui/main.py"
      [] env = PYTHON_CODE_INTERPRETER -> "python"
      [] env = JAVASCRIPT_CODE_INTERPRETER -> "javascript"

\* C8: a Run that reaches the dispatcher invokes the handler of
\* sandbox_environment when that is not Auto and the handler of
\* auto_selected_sandbox_environment when it is, and no other handler.
C8_DispatchesEffectiveHandler ==
    [][\A s \in Sides, h \in Kinds :
          (call[s][h].pc = "loaded" /\ call'[s][h].pc = "remote") =>
              LET st == sandbox_states[s]
                  env == IF st.sandbox_environment = AUTO
                         THEN st.auto_selected_sandbox_environment
                         ELSE st.sandbox_environment
              IN /\ call'[s][h].handler = env
                 /\ CodeSinks(call'[s][h].ops) = {ExpectedSink(env)}]_vars

\* A handler picked through the automatically selected environment is running.
C8_Witness ==
    \E s \in Sides, h \in Kinds :
        /\ call[s][h].pc = "remote"
        /\ sandbox_states[s].sandbox_environment = AUTO
        /\ call[s][h].handler = sandbox_states[s].auto_selected_sandbox_environment
        /\ call[s][h].issued > 0

\* C9: a dispatching Run yields 'loading' before its first remote call, then
\* one terminal rendering once the handler has returned (running + visible
\* served view for service-style handlers, printed text + hidden served view
\* for the interpreters), and nothing after it.
C9_RenderingOrder ==
    \A s \in Sides :
        /\ \A h \in Kinds :
               /\ call[s][h].pc = "loaded" =>
                      call[s][h].emitted = <<Loading>> /\ call[s][h].issued = 0
               /\ call[s][h].pc = "remote" => call[s][h].emitted = <<Loading>>
        /\ last[s].outcome = "returned" =>
               /\ Len(last[s].emitted) = 2
               /\ last[s].emitted[1] = Loading
               /\ IF last[s].handler \in WEB_UI_SANDBOX_ENVIRONMENTS
                  THEN /\ last[s].emitted[2].status = "### Running Sandbox"
                       /\ last[s].emitted[2].ui_visible
                       /\ last[s].emitted[2].url # ""
                  ELSE /\ last[s].handler \in
                              {PYTHON_CODE_INTERPRETER, JAVASCRIPT_CODE_INTERPRETER}
                       /\ last[s].emitted[2].status = "printed"
                       /\ ~last[s].emitted[2].ui_visible
                       /\ last[s].emitted[2].url = ""
        /\ last[s].outcome \in {"remote failure", "unsupported environment"} =>
               last[s].emitted = <<Loading>>

\* An interpreter run has returned and its output is rendered.
C9_Witness ==
    \E s \in Sides :
        /\ last[s].outcome = "returned"
        /\ last[s].handler = PYTHON_CODE_INTERPRETER
        /\ Len(last[s].emitted) = 2

\* C10: a Run whose effective environment is none of the nine concrete tags
\* ends in the fatal 'unsupported environment' error without a remote call.
C10_DispatcherExhaustive ==
    [][\A s \in Sides, h \in Kinds :
          LET st == sandbox_states[s]
              env == IF st.sandbox_environment = AUTO
                     THEN st.auto_selected_sandbox_environment
                     ELSE st.sandbox_environment
          IN (/\ call[s][h].pc = "loaded"
              /\ call'[s][h] # call[s][h]
              /\ env \notin SandboxEnvironment \ {AUTO})
             => /\ call'[s][h].pc = "idle"
                /\ last'[s].outcome = "unsupported environment"
                /\ last'[s].by = h]_vars

\* A Run ended in the 'unsupported environment' error.
C10_Witness ==
    \E s \in Sides :
        /\ last[s].outcome = "unsupported environment"
        /\ last[s].emitted = <<Loading>>

\* The remote calls a handler in flight has made so far, in order.
Issued(c) == SubSeq(c.ops, 1, c.issued)

\* A command installing the dependencies extracted from the code.
IsDependencyInstall(o) == o.op = "run" /\ o.pkgs # <<>>

\* C11: in a service-style handler every dependency installation command is
\* issued before the code file is written.
C11_InstallBeforeWrite ==
    \A s \in Sides, h \in Kinds :
        (call[s][h].pc = "remote"
            /\ call[s][h].handler \in WEB_UI_SANDBOX_ENVIRONMENTS) =>
            LET done == Issued(call[s][h]) IN
            \A i, j \in 1..Len(done) :
                (IsDependencyInstall(done[i]) /\ done[j].op = "write") => i < j

\* C12: in a service-style handler the code file is written before the
\* serving process is started; the pygame handler builds before it starts the
\* server, and it returns its URL only after the build.
C12_WriteBuildServe ==
    [][\A s \in Sides, h \in Kinds :
          LET c == call[s][h]
              done == Issued(c)
              Built == \E i \in 1..Len(done) :
                           done[i] = Op("run", "pygbag --build ~/mygame", <<>>)
          IN (c.pc = "remote" /\ c.handler \in WEB_UI_SANDBOX_ENVIRONMENTS) =>
                /\ \A j \in 1..Len(done) :
                       done[j].op = "start" =>
                           /\ \E i \in 1..(j - 1) : done[i].op = "write"
                           /\ c.handler = PYGAME =>
                                  \E i \in 1..(j - 1) :
                                      done[i] = Op("run", "pygbag --build ~/mygame", <<>>)
                /\ (c.handler = PYGAME /\ call'[s][h].pc = "idle"
                        /\ last'[s].outcome = "returned") => Built]_vars

\* The pygame handler has started its server.
C12_Witness ==
    \E s \in Sides, h \in Kinds :
        /\ call[s][h].pc = "remote"
        /\ call[s][h].handler = PYGAME
        /\ \E j \in 1..call[s][h].issued : call[s][h].ops[j].op = "start"

\* C13: within one Run the handler's remote commands are issued one after the
\* other, each at most once; when one fails the Run ends there: no later
\* remote step is issued and the failure, not a result, is what the Run ends with.
C13_NoRetry ==
    [][\A s \in Sides, h \in Kinds :
          LET c == call[s][h] IN
          c.pc = "remote" =>
              /\ \A i, j \in 1..Len(c.ops) : c.ops[i] = c.ops[j] => i = j
              /\ call'[s][h].pc = "remote" =>
                     /\ call'[s][h].ops = c.ops
                     /\ call'[s][h].issued \in {c.issued, c.issued + 1}
                     /\ last'[s] = last[s] \/ last'[s].by # h
              /\ (call'[s][h].pc = "idle" /\ last'[s].outcome # "returned") =>
                     /\ last'[s].outcome = "remote failure"
                     /\ last'[s].by = h
                     /\ last'[s].emitted = c.emitted]_vars

\* A Run ended in a remote failure after some of its remote calls.
C13_Witness ==
    \E s \in Sides :
        /\ last[s].outcome = "remote failure"
        /\ last[s].handler \in Dispatchable
        /\ \A h \in Kinds : call[s][h].pc = "idle"

\* The pending code, language and dependencies of a side.
Pending(st) == <<st.code_to_execute, st.code_language, st.code_dependencies>>

\* C14: a remote failure leaves the side's pending code, language and
\* dependencies as they were, and re-issuing the input of the failed Run
\* (the same chat message clicked again, the same text submitted again, with
\* nothing in between) starts a new Run that goes on to the dispatcher.
C14_RetryAfterFailure ==
    [][\A s \in Sides :
          /\ (\E h \in Kinds : /\ call[s][h].pc = "remote"
                               /\ call'[s][h].pc = "idle"
                               /\ last'[s].outcome = "remote failure")
                 => Pending(sandbox_states'[s]) = Pending(sandbox_states[s])
          /\ \A evt \in ClickValues :
                 (/\ ClickTaken(s, evt)
                  /\ MessageRun(s, evt)
                  /\ streak.side = s /\ streak.msg = evt.m /\ streak.runs = 1
                  /\ last[s].by = "msg"
                  /\ last[s].arg = evt
                  /\ last[s].outcome = "remote failure")
                 => call'[s]["msg"].pc = "loaded"
          /\ \A text \in EditTexts :
                 (/\ Edit(s, text)
                  /\ sandbox_states[s].enable_sandbox
                  /\ sandbox_states[s].code_to_execute = text
                  /\ last[s].by = "edit"
                  /\ last[s].arg = EditInput(text)
                  /\ last[s].outcome = "remote failure")
                 => call'[s]["edit"].pc = "loaded"]_vars

\* C15: a Run that ended in a remote failure has emitted, after the loading
\* rendering, a terminal rendering that carries the failure.
C15_FailureRendered ==
    \A s \in Sides :
        last[s].outcome = "remote failure" =>
            /\ Len(last[s].emitted) = 2
            /\ last[s].emitted[2] # Loading

\* C16: a side's system message carries the sandbox instruction at most once
\* (a conversation starts afresh at clear_history), and the step that appends
\* it is taken with the side's enabled_round at 0 and locks the side.
C16_InstructionAppendedOnce ==
    [][\A s \in Sides :
          /\ Len(states'[s].system_message) <= 1
          /\ Len(states'[s].system_message) > Len(states[s].system_message) =>
                 /\ sandbox_states[s].enabled_round = 0
                 /\ sandbox_states'[s].enabled_round = 1
                 /\ states'[s].system_message =
                        <<sandbox_states[s].sandbox_instruction>>]_vars

\* A second send has passed update_sandbox_system_messages_multi on a side
\* whose system message already carried the instruction.
C16_Witness ==
    /\ chain.pc = "bot_response_multi"
    /\ ~env_choice_interactive
    /\ \E s \in Sides :
           /\ sandbox_states[s].enable_sandbox
           /\ sandbox_states[s].enabled_round = 1
           /\ Len(states[s].system_message) = 1

\* C17: update_sandbox_config with (e, v) sets enable_sandbox = e,
\* sandbox_environment = v and sandbox_instruction = the table's template of v
\* (none when v has no entry), on every side, and changes nothing else.
C17_ConfigureFrame ==
    [][(CheckboxChange \/ EnvChoiceChange) =>
          LET e == enable_sandbox_checkbox'
              v == sandbox_env_choice'
          IN \A s \in Sides :
                 sandbox_states'[s] =
                     [sandbox_states[s] EXCEPT
                         !.enable_sandbox = e,
                         !.sandbox_environment = v,
                         !.sandbox_instruction =
                             IF v \in SandboxEnvironment
                             THEN Template(v) ELSE None]]_vars

\* A side was configured after it had taken a pending code and an automatic
\* selection, and still holds both.
C17_Witness ==
    /\ ~enable_sandbox_checkbox
    /\ \E s \in Sides :
           /\ ~sandbox_states[s].enable_sandbox
           /\ sandbox_states[s].sandbox_instruction
                  = Template(sandbox_states[s].sandbox_environment)
           /\ sandbox_states[s].code_to_execute # <<>>
           /\ sandbox_states[s].code_language # None
           /\ sandbox_states[s].auto_selected_sandbox_environment # None

\* C18: auto_selected_sandbox_environment is populated only when
\* sandbox_environment is Auto.
C18_SelectionOnlyUnderAuto ==
    \A s \in Sides :
        sandbox_states[s].auto_selected_sandbox_environment # None =>
            sandbox_states[s].sandbox_environment = AUTO

\* A step of Edit, MessageRun or Run on side s.
StepOn(s) ==
    \/ \E text \in EditTexts : Edit(s, text)
    \/ \E evt \in ClickValues : ClickTaken(s, evt) /\ MessageRun(s, evt)
    \/ \E h \in Kinds : call[s][h].pc # "idle" /\ call'[s][h] # call[s][h]

\* C19: a step of Edit, MessageRun or Run on one side leaves the other side's
\* SandboxState, its Runs in flight and its last result as they were; a Run
\* that enters a handler starts with a remote context of its own and touches
\* no other Run's.
C19_SidesIndependent ==
    [][\A s \in Sides :
          StepOn(s) =>
              /\ \A o \in Sides \ {s} :
                     /\ sandbox_states'[o] = sandbox_states[o]
                     /\ call'[o] = call[o]
                     /\ last'[o] = last[o]
              /\ \A h \in Kinds :
                     (call[s][h].pc = "loaded" /\ call'[s][h].pc = "remote") =>
                         /\ call'[s][h].ops[1].op = "create"
                         /\ call'[s][h].issued = 0
                         /\ \A k \in Kinds \ {h} : call'[s][k] = call[s][k]]_vars

\* Both sides have a Run inside a handler at the same time.
C19_Witness ==
    \E h, k \in Kinds :
        /\ call[0][h].pc = "remote" /\ call[0][h].issued > 0
        /\ call[1][k].pc = "remote" /\ call[1][k].issued > 0

\* C20: when a Run returns and leaves no Run in flight on its side, the result
\* it renders is the one for the side's pending code (the most recently
\* accepted one): an earlier Run that was overtaken does not have the last word.
C20_LatestResultRendered ==
    [][\A s \in Sides, h \in Kinds :
          (/\ call[s][h].pc = "remote"
           /\ call'[s][h].pc = "idle"
           /\ last'[s].outcome = "returned"
           /\ \A k \in Kinds : call'[s][k].pc = "idle")
          => call[s][h].code = sandbox_states[s].code_to_execute]_vars

\* The environments whose handler evaluates the code and returns what it printed.
Interpreters == {PYTHON_CODE_INTERPRETER, JAVASCRIPT_CODE_INTERPRETER}

\* The path each service-style handler is documented to append to the host.
DocumentedSuffix(handler) ==
    IF handler = HTML THEN "/myhtml/main.html"
    ELSE IF handler = PYGAME THEN "/mygame/build/web/"
    ELSE ""

\* The last rendering of the most recent invocation of a side.
Final(s) == last[s].emitted[Len(last[s].emitted)]

\* C21: every run that returns from a service-style handler renders the fixed
\* scheme 'https://', the non-empty host of an exposed port and the handler's
\* fixed path suffix, in a visible served view; every run that returns from an
\* interpreter-style handler renders the printed text, an empty address and a
\* hidden served view.
C21_ReturnedAddress ==
    \A s \in Sides :
        last[s].outcome = "returned" =>
            IF last[s].handler \in Interpreters
            THEN /\ Final(s).status = "printed"
                 /\ Final(s).url = ""
                 /\ ~Final(s).ui_visible
            ELSE /\ last[s].handler \in WEB_UI_SANDBOX_ENVIRONMENTS
                 /\ Final(s).ui_visible
                 /\ \E port \in {"3000", "8080", "7860", "8501"} :
                        /\ get_host(port) # ""
                        /\ Final(s).url = "https://" \o get_host(port)
                                            \o DocumentedSuffix(last[s].handler)

\* A run of the HTML handler returned and rendered the address of its page.
C21_Witness ==
    \E s \in Sides :
        /\ last[s].outcome = "returned"
        /\ last[s].handler = HTML
        /\ Final(s).url = "https://3000-sandbox.e2b.dev/myhtml/main.html"

\* The fenced block of chat message m is extracted but no environment is
\* recognised for it.
Unclassifiable(m) ==
    LET r == extract_code_from_markdown(ChatMessages[m], FALSE) IN
    ~r.is_none /\ r.env = None

\* C23: in automatic mode an extraction whose classification is none is none
\* as a whole; so MessageRun on a side configured Auto never stores none into
\* auto_selected_sandbox_environment, and for a block it cannot classify it
\* changes no field of the side's state and starts no Run.
C23_AutoNeverStoresNone ==
    [][\A s \in Sides, evt \in ClickValues :
          (/\ ClickTaken(s, evt)
           /\ MessageRun(s, evt)
           /\ sandbox_states[s].sandbox_environment = AUTO)
          => /\ Unclassifiable(evt.m)
                    => extract_code_from_markdown(ChatMessages[evt.m], TRUE).is_none
             /\ sandbox_states'[s] # sandbox_states[s]
                    => sandbox_states'[s].auto_selected_sandbox_environment
                           \in SandboxEnvironment \ {AUTO}
             /\ Unclassifiable(evt.m)
                    => /\ sandbox_states'[s] = sandbox_states[s]
                       /\ ~RunEntered(s, "msg")]_vars

\* The run button of the message with a block in an unrecognised language was
\* clicked on an enabled side configured Auto, and the click was skipped.
C23_Witness ==
    \E s \in Sides :
        /\ sandbox_states[s].enable_sandbox
        /\ sandbox_states[s].sandbox_environment = AUTO
        /\ last[s].by = "msg"
        /\ last[s].arg.has_button
        /\ Unclassifiable(last[s].arg.m)
        /\ last[s].outcome = "skip"

\* C30: Run never modifies the SandboxState it is given.  It begins with the
\* state as its caller stored it, and every later step of it (the dispatch,
\* each remote call, a remote call that raises) leaves every field of every
\* side's state as it was.
C30_RunLeavesState ==
    [][/\ (Dispatch \/ RemoteCall \/ RemoteFailure)
              => sandbox_states' = sandbox_states
       /\ \A s \in Sides, sandbox_code \in EditTexts :
              (Edit(s, sandbox_code) /\ RunEntered(s, "edit"))
              => sandbox_states' =
                     [sandbox_states EXCEPT ![s].code_to_execute = sandbox_code]
       /\ \A s \in Sides, evt \in ClickValues :
              (ClickTaken(s, evt) /\ MessageRun(s, evt) /\ RunEntered(s, "msg"))
              => sandbox_states' =
                     [sandbox_states EXCEPT
                         ![s] = AcceptExtraction(@, Extraction(@, evt))]]_vars

\* A Run went through its handler to the end, one way or the other, and the
\* side still holds the code and the language the Run was started with.
C30_Witness ==
    \E s \in Sides :
        /\ last[s].outcome \in {"returned", "remote failure"}
        /\ sandbox_states[s].code_to_execute # <<>>
        /\ sandbox_states[s].code_language # None
        /\ last[s].by = "msg"
        /\ sandbox_states[s].code_to_execute =
               Extraction(sandbox_states[s], last[s].arg).code

\* The helper fn was applied to its input and returned.
Returned(fn) == probe.fn = fn /\ probe.done

\* C22: install_pip_dependencies and install_npm_dependencies issue no remote
\* command for an empty list, and otherwise exactly one install command, with
\* the package manager of the helper, that names every listed package.
C22_OneInstallCommand ==
    \A fn \in {"install_pip_dependencies", "install_npm_dependencies"} :
        Returned(fn) =>
            IF probe.arg = <<>>
            THEN probe.out = <<>>
            ELSE /\ Len(probe.out) = 1
                 /\ probe.out[1].op = "run"
                 /\ probe.out[1].arg =
                        (IF fn = "install_pip_dependencies"
                         THEN "uv pip install --system" ELSE "npm install")
                 /\ \A i \in 1..Len(probe.arg) :
                        \E j \in 1..Len(probe.out[1].pkgs) :
                            probe.out[1].pkgs[j] = probe.arg[i]

\* The pip helper returned its one command for a list of two packages.
C22_Witness ==
    /\ Returned("install_pip_dependencies")
    /\ probe.arg = <<"numpy", "requests">>
    /\ Len(probe.out) = 1

\* The fenced blocks of a message as a reader of the markdown sees them.
FencedBlocks(message) == SelectSeq(message, LAMBDA seg : seg.t = "block")

\* Block i of blocks has the longest body, and is the first that has.
FirstLongest(blocks, i) ==
    /\ \A j \in 1..Len(blocks) : CodeLen(blocks[j].body) <= CodeLen(blocks[i].body)
    /\ \A j \in 1..(i - 1) : CodeLen(blocks[j].body) < CodeLen(blocks[i].body)

\* C24: for every text with one or more fenced code blocks the extraction
\* selects the block with the longest body, and among blocks of equal
\* longest length the one that comes first in the text.
C24_LongestBlockFirstOnTies ==
    (Returned("extract_code_from_markdown") /\ ~probe.arg.enable_auto_env) =>
        LET blocks == FencedBlocks(probe.arg.message) IN
        blocks # <<>> =>
            /\ ~probe.out.is_none
            /\ \E i \in 1..Len(blocks) :
                   /\ FirstLongest(blocks, i)
                   /\ probe.out.code = Strip(blocks[i].body)
                   /\ probe.out.code_lang = Lower(blocks[i].tag)

\* C25: for every text with zero fenced code blocks the extraction returns
\* none, with automatic classification enabled and disabled alike.
C25_NoBlockNoExtraction ==
    (Returned("extract_code_from_markdown")
        /\ FencedBlocks(probe.arg.message) = <<>>)
        => probe.out.is_none

\* The extraction returned for a text of prose only, automatic classification
\* disabled.
C25_Witness ==
    /\ Returned("extract_code_from_markdown")
    /\ probe.arg.message = <<Say(<<Words>>), Prose>>
    /\ ~probe.arg.enable_auto_env
    /\ probe.out.is_none

\* The top-level names a Python fragment imports, as its text shows them.
ImportedNames(code) ==
    {code[i].a[1] : i \in {j \in 1..Len(code) :
        /\ code[j].a # <<>>
        /\ \/ code[j].k = "import"
           \/ code[j].k = "from" /\ code[j].n = 0}}

HasBareName(code, id) ==
    \E i \in 1..Len(code) : code[i].k = "name" /\ code[i].a[1] = id

\* The environment the documented priority of frameworks gives a fragment.
FrameworkPriority(code) ==
    IF "pygame" \in ImportedNames(code) THEN PYGAME
    ELSE IF "gradio" \in ImportedNames(code) THEN GRADIO
    ELSE IF "streamlit" \in ImportedNames(code) THEN STREAMLIT
    ELSE IF "nicegui" \in ImportedNames(code) THEN NICEGUI
    ELSE PYTHON_CODE_INTERPRETER

\* C26: for Python code with no bare gr or st name, the environment that
\* extract_python_imports followed by determine_python_environment produces
\* follows the imported frameworks in the priority pygame, gradio, streamlit,
\* nicegui, and is Python Code Interpreter only when none is imported.
C26_ImportPriority ==
    (/\ Returned("determine_python_environment")
     /\ ParsesAsPython(probe.arg)
     /\ ~HasBareName(probe.arg, "gr")
     /\ ~HasBareName(probe.arg, "st"))
        => probe.out = FrameworkPriority(probe.arg)

\* C27, as stated: every Python fragment with a bare reference to gr is
\* classified Gradio, whatever it imports and whatever other names, st
\* included, it references.
C27_BareGrIsGradio ==
    (/\ Returned("determine_python_environment")
     /\ ParsesAsPython(probe.arg)
     /\ HasBareName(probe.arg, "gr"))
        => probe.out = GRADIO

\* A bare reference to id that the breadth-first walk of the tree meets before
\* every bare reference to other: at a smaller depth, or at the same depth and
\* earlier in the source.
MetFirst(code, id, other) ==
    \E i \in 1..Len(code) :
        /\ code[i].k = "name" /\ code[i].a[1] = id
        /\ \A j \in 1..Len(code) :
               (code[j].k = "name" /\ code[j].a[1] = other)
               => \/ code[i].n < code[j].n
                  \/ code[i].n = code[j].n /\ i < j

\* C27, amended: for every Python fragment that parses, whatever it imports,
\* the bare reference to gr or st that ast.walk meets first decides: Gradio
\* when it is gr, Streamlit when it is st.
C27_FirstBareNameDecides ==
    (Returned("determine_python_environment") /\ ParsesAsPython(probe.arg))
        => /\ MetFirst(probe.arg, "gr", "st") => probe.out = GRADIO
           /\ MetFirst(probe.arg, "st", "gr") => probe.out = STREAMLIT

\* A fragment whose bare gr sits nearer the root than the bare st written
\* before it was classified Gradio.
C27_Witness ==
    /\ Returned("determine_python_environment")
    /\ probe.arg = <<Name("st", 1), Name("gr", 0)>>
    /\ probe.out = GRADIO

\* C28: determine_js_environment walks the whole syntax tree and the first
\* JSX element it finds decides the result whatever the imports are: code
\* with a JSX element at any depth is classified React, also when it imports
\* no React package.
C28_JsxAnywhereIsReact ==
    (/\ Returned("determine_js_environment")
     /\ \E i \in 1..Len(probe.arg) : probe.arg[i].k = "jsx")
        => probe.out = REACT

RECURSIVE EachRendered(_)
EachRendered(results) ==
    IF results = <<>> THEN <<>>
    ELSE <<render_result(Head(results))>> \o EachRendered(Tail(results))

\* The lines of a stream joined by newlines.
Stream(lines) == Join([i \in 1..Len(lines) |-> <<lines[i]>>])

\* C31: the text of run_code_interpreter is, in this order, a labeled stdout
\* block present exactly when stdout is non-empty, a labeled stderr block
\* present exactly when stderr is non-empty, and a labeled results block
\* holding the rendering of each result artifact in execution order.
C31_OutputBlocks ==
    Returned("run_code_interpreter") =>
        LET stdout == Stream(probe.arg.stdout)
            stderr == Stream(probe.arg.stderr)
        IN probe.out =
               (IF Falsy(stdout) THEN <<>>
                ELSE <<"### Stdout:\n'''\n">> \o stdout \o <<"\n'''\n\n">>)
               \o (IF Falsy(stderr) THEN <<>>
                   ELSE <<"### Stderr:\n'''\n">> \o stderr \o <<"\n'''\n\n">>)
               \o (IF probe.arg.results = <<>> THEN <<>>
                   ELSE <<"\n### Results:\n">>
                            \o Join(EachRendered(probe.arg.results)))

\* The format of highest priority that is set on an artifact, none if none is.
Highest(result) ==
    IF result.png # "" THEN "png"
    ELSE IF result.jpeg # "" THEN "jpeg"
    ELSE IF result.svg # "" THEN "svg"
    ELSE IF result.html # "" THEN "html"
    ELSE IF result.markdown # "" THEN "markdown"
    ELSE IF result.latex # "" THEN "latex"
    ELSE IF result.json # "" THEN "json"
    ELSE IF result.javascript # "" THEN "javascript"
    ELSE "str"

\* C32: render_result fires exactly one branch per artifact, chosen by the
\* priority png, jpeg, svg, html, markdown, latex, json, javascript, generic
\* string: the output carries the value of the highest-priority format set
\* and of no other, and html and javascript come back unwrapped.
C32_OneBranchByPriority ==
    Returned("render_result") =>
        LET f == Highest(probe.arg)
            value == probe.arg[f]
        IN /\ \E i \in 1..Len(probe.out) :
                  probe.out[i] \in {value, b64encode(value)}
           /\ \A g \in DOMAIN probe.arg \ {f} :
                  probe.arg[g] # "" =>
                      \A i \in 1..Len(probe.out) :
                          probe.out[i] \notin {probe.arg[g], b64encode(probe.arg[g])}
           /\ f \in {"html", "javascript", "str"} => probe.out = <<value>>
           /\ f \in {"markdown", "latex", "json"}
                  => probe.out = <<"'''" \o f \o "\n", value, "\n'''">>

\* An artifact with html, json and javascript set was rendered as its bare
\* html.
C32_Witness ==
    /\ Returned("render_result")
    /\ probe.arg = Artifact({"html", "json", "javascript"}, "Result()")
    /\ probe.out = <<"<html>">>

\* C33: on a side configured Auto, a MessageRun whose extraction succeeds with
\* an inferred environment and is accepted (it differs from the pending
\* triple, the credential is present) starts a Run that goes on to the
\* dispatcher with that environment as the one to dispatch to, whatever the
\* language tag of the block.
C33_AutoRunDispatchesInferred ==
    [][\A s \in Sides, evt \in ClickValues :
          (/\ ClickTaken(s, evt)
           /\ MessageRun(s, evt)
           /\ E2B_API_KEY
           /\ evt.has_button
           /\ sandbox_states[s].enable_sandbox
           /\ sandbox_states[s].sandbox_environment = AUTO
           /\ ~Extraction(sandbox_states[s], evt).is_none
           /\ ~SameAsPending(sandbox_states[s], Extraction(sandbox_states[s], evt)))
          => /\ call'[s]["msg"].pc = "loaded"
             /\ EffectiveEnvironment(sandbox_states'[s])
                    = Extraction(sandbox_states[s], evt).env]_vars

\* C34: on a side configured Auto, a Run that is about to enter the dispatcher
\* finds a concrete auto_selected_sandbox_environment, never none, and no Run
\* of such a side ends in the 'unsupported environment' error.
C34_AutoRunHasEnvironment ==
    [][\A s \in Sides, h \in Kinds :
          (/\ call[s][h].pc = "loaded"
           /\ call'[s][h].pc # "loaded"
           /\ sandbox_states[s].sandbox_environment = AUTO)
          => /\ sandbox_states[s].auto_selected_sandbox_environment # None
             /\ last'[s].outcome # "unsupported environment"]_vars

\* C35: an Edit or a MessageRun that ends in the error of the missing
\* credential leaves the SandboxState of every side as it was before it.
C35_CredentialErrorRollsBack ==
    [][\A s \in Sides, h \in Kinds :
          (/\ last' # last
           /\ last'[s].by = h
           /\ last'[s].outcome = "no credential"
           /\ call' = call)
          => sandbox_states' = sandbox_states]_vars

\* C36: in the send chain, the instruction appended to a side's system
\* message at the moment its configuration is locked is the per-environment
\* template of the side's configured sandbox_environment.
C36_AppendedInstructionIsTemplate ==
    [][\A s \in Sides :
          (/\ sandbox_states[s].enabled_round = 0
           /\ sandbox_states'[s].enabled_round > 0
           /\ sandbox_states[s].sandbox_environment \in SandboxEnvironment)
          => /\ Len(states'[s].system_message) > 0
             /\ states'[s].system_message[Len(states'[s].system_message)]
                    = DictGet(DEFAULT_SANDBOX_INSTRUCTIONS,
                              sandbox_states[s].sandbox_environment)]_vars

\* C37: a send that add_text_multi skips (skip_next set on the sides) neither
\* locks the sandbox configuration nor appends the instruction: the rest of
\* the chain leaves enabled_round and the system message of each side as
\* they were.
C37_SkippedSendLocksNothing ==
    [][(/\ chain.pc \notin {"idle", "add_text_multi"}
        /\ \A s \in Sides : states[s].skip_next)
       => \A s \in Sides :
              /\ sandbox_states'[s].enabled_round = sandbox_states[s].enabled_round
              /\ states'[s].system_message = states[s].system_message]_vars

\* C38: clear_history sets enabled_round to 0 on both sides and leaves every
\* other field of both SandboxStates as it was; the rest of its chain leaves
\* the SandboxStates alone.
C38_ClearHistoryFrame ==
    [][/\ clear_history =>
              \A s \in Sides :
                  /\ sandbox_states'[s].enabled_round = 0
                  /\ \A f \in DOMAIN sandbox_states[s] \ {"enabled_round"} :
                         sandbox_states'[s][f] = sandbox_states[s][f]
       /\ ClearFinish => sandbox_states' = sandbox_states]_vars

\* The history was cleared after a send had locked the configuration: both
\* sides are unlocked again and still enabled, the dropdown not yet released.
C38_Witness ==
    /\ chain.pc = "clear_sandbox_components"
    /\ ~env_choice_interactive
    /\ \A s \in Sides :
           sandbox_states[s].enabled_round = 0 /\ sandbox_states[s].enable_sandbox

\* C39: after clear_history, the first MessageRun of a side on a message with a
\* runnable block (the side enabled, the credential present, the block's
\* language supported and its environment one the dispatcher knows) starts a
\* remote execution, also when the block equals the code that was pending
\* before the clear.
C39_FirstRunAfterClearDispatches ==
    [][\A s \in Sides, evt \in ClickValues :
          (/\ ClickTaken(s, evt)
           /\ MessageRun(s, evt)
           /\ cleared[s]
           /\ E2B_API_KEY
           /\ evt.has_button
           /\ sandbox_states[s].enable_sandbox
           /\ ~Extraction(sandbox_states[s], evt).is_none
           /\ AcceptExtraction(sandbox_states[s],
                               Extraction(sandbox_states[s], evt)).code_language
                  # None
           /\ EffectiveEnvironment(
                  AcceptExtraction(sandbox_states[s],
                                   Extraction(sandbox_states[s], evt)))
                  \in Dispatchable)
          => call'[s]["msg"].pc = "loaded"]_vars

\* The keys update_sandbox_config assigns.
ConfigKeys == {"enable_sandbox", "sandbox_environment", "sandbox_instruction"}

\* C40: update_sandbox_config_multi applied to n states returns n states, in
\* the same order (each position keeps every other key of the state it held),
\* all with the same enable_sandbox, sandbox_environment and
\* sandbox_instruction; applied again with the same arguments it returns what
\* it returned the first time.
C40_ConfigMultiUniformIdempotent ==
    Returned("update_sandbox_config_multi") =>
        LET a == probe.arg
            out == probe.out
        IN
        /\ DOMAIN out = DOMAIN a.states
        /\ \A i \in DOMAIN out :
              \A k \in DOMAIN a.states[i] \ ConfigKeys :
                  out[i][k] = a.states[i][k]
        /\ \A i, j \in DOMAIN out : \A k \in ConfigKeys : out[i][k] = out[j][k]
        /\ update_sandbox_config_multi(a.enable_sandbox, a.sandbox_environment,
                                       out) = out

\* Three states that differed in all three keys and in their pending code were
\* given the React configuration.
C40_Witness ==
    /\ Returned("update_sandbox_config_multi")
    /\ Len(probe.arg.states) = 3
    /\ \A i, j \in 1..3 :
          i # j => /\ probe.arg.states[i].sandbox_environment
                        # probe.arg.states[j].sandbox_environment
                   /\ probe.arg.states[i].sandbox_instruction
                        # probe.arg.states[j].sandbox_instruction
    /\ probe.arg.states[1].code_to_execute # probe.arg.states[2].code_to_execute
    /\ probe.arg.sandbox_environment = REACT
    /\ \A i \in 1..3 :
          /\ probe.out[i].sandbox_environment = REACT
          /\ probe.out[i].sandbox_instruction = DEFAULT_SANDBOX_INSTRUCTIONS[REACT]
          /\ probe.out[i].enable_sandbox = probe.arg.enable_sandbox

====
